---------------------------- MODULE Spec2Model ----------------------------
(***************************************************************************)
(* Model of postfix/src/util/attr_scan64.c: the decoder of the base64      *)
(* framed attribute list protocol (attr_scan64 / attr_vscan64).            *)
(*                                                                         *)
(* Bytes are their ASCII codes.  A stream is a finite sequence of bytes    *)
(* followed by end-of-stream.  Decoded names and values are C strings of   *)
(* the sender (attr_print64 encodes strlen() bytes), so the inputs here    *)
(* hold no NUL byte.                                                       *)
(***************************************************************************)
EXTENDS Integers, Sequences, FiniteSets, TLC

(***************************************************************************)
(* Characters of the wire format.                                          *)
(***************************************************************************)
Colon == 58
Newline == 10
VSTREAM_EOF == -1
Pad == 61
INVALID == 255

(***************************************************************************)
(* Bounds of the model.                                                    *)
(***************************************************************************)
\* attributes in a well-formed wire list
MaxAttrs == 3
\* lines in a short wire list (malformed lines, truncated streams)
MaxShort == 2
\* attributes in a round-trip wire list
MaxRT == 2
\* the configured line limit (2048 in the test program), scaled down
var_line_limit == 2

(***************************************************************************)
(* base64: the codec of base64_code.c, which attr_scan64_string calls and  *)
(* attr_print64 uses to produce the wire.                                  *)
(***************************************************************************)
to_b64(i) ==
    IF i < 26 THEN 65 + i
    ELSE IF i < 52 THEN 97 + (i - 26)
    ELSE IF i < 62 THEN 48 + (i - 52)
    ELSE IF i = 62 THEN 43 ELSE 47

un_b64(c) ==
    IF c >= 65 /\ c <= 90 THEN c - 65
    ELSE IF c >= 97 /\ c <= 122 THEN c - 97 + 26
    ELSE IF c >= 48 /\ c <= 57 THEN c - 48 + 52
    ELSE IF c = 43 THEN 62
    ELSE IF c = 47 THEN 63
    ELSE INVALID

RECURSIVE base64_encode(_)
base64_encode(in) ==
    IF Len(in) = 0 THEN << >>
    ELSE IF Len(in) = 1 THEN
        << to_b64(in[1] \div 4), to_b64((in[1] % 4) * 16), Pad, Pad >>
    ELSE IF Len(in) = 2 THEN
        << to_b64(in[1] \div 4),
           to_b64((in[1] % 4) * 16 + in[2] \div 16),
           to_b64((in[2] % 16) * 4), Pad >>
    ELSE
        << to_b64(in[1] \div 4),
           to_b64((in[1] % 4) * 16 + in[2] \div 16),
           to_b64((in[2] % 16) * 4 + in[3] \div 64),
           to_b64(in[3] % 64) >>
        \o base64_encode(SubSeq(in, 4, Len(in)))

\* The decoding loop: one group of four characters per iteration.  The
\* result is [ok, out]; out is what has been appended to the result buffer.
RECURSIVE base64_decode_loop(_, _)
base64_decode_loop(in, out) ==
    IF Len(in) = 0 THEN [ok |-> TRUE, out |-> out]
    ELSE
      LET ch0 == un_b64(in[1])
          ch1 == un_b64(in[2])
          o1  == Append(out, (ch0 * 4 + ch1 \div 16) % 256)
          ch2 == un_b64(in[3])
          o2  == Append(o1, ((ch1 % 16) * 16 + ch2 \div 4) % 256)
          ch3 == un_b64(in[4])
          o3  == Append(o2, ((ch2 % 4) * 64 + ch3) % 256)
      IN  IF ch0 = INVALID \/ ch1 = INVALID THEN [ok |-> FALSE, out |-> out]
          ELSE IF in[3] = Pad THEN [ok |-> TRUE, out |-> o1]
          ELSE IF ch2 = INVALID THEN [ok |-> FALSE, out |-> o1]
          ELSE IF in[4] = Pad THEN [ok |-> TRUE, out |-> o2]
          ELSE IF ch3 = INVALID THEN [ok |-> FALSE, out |-> o2]
          ELSE base64_decode_loop(SubSeq(in, 5, Len(in)), o3)

base64_decode(in) ==
    IF Len(in) % 4 # 0 THEN [ok |-> FALSE, out |-> << >>]
    ELSE base64_decode_loop(in, << >>)


(***************************************************************************)
(* C strings: STR(x) of a buffer is read up to its first NUL byte.         *)
(***************************************************************************)
RECURSIVE STR(_)
STR(x) ==
    IF Len(x) = 0 \/ x[1] = 0 THEN << >> ELSE << x[1] >> \o STR(Tail(x))

strcmp(a, b) == IF STR(a) = STR(b) THEN 0 ELSE 1

(***************************************************************************)
(* The wire.  A line is [shape, name, value]; attr_print64 writes an       *)
(* attribute as b64(name) ":" b64(value) "\n" and ends a list with an      *)
(* empty line.  The other shapes are what a faulty peer may send.          *)
(***************************************************************************)
Garbage == << 33, 33, 33, 33 >>

attr_print64_line(l) ==
    CASE l.shape = "attr"  ->
            base64_encode(l.name) \o << Colon >> \o base64_encode(l.value)
                \o << Newline >>
      [] l.shape = "term"  -> << Newline >>
      [] l.shape = "noval" -> base64_encode(l.name) \o << Newline >>
      [] l.shape = "multi" ->
            base64_encode(l.name) \o << Colon >> \o base64_encode(l.value)
                \o << Colon >> \o base64_encode(l.value) \o << Newline >>
      [] l.shape = "badname" ->
            Garbage \o << Colon >> \o base64_encode(l.value) \o << Newline >>
      [] l.shape = "badvalue" ->
            base64_encode(l.name) \o << Colon >> \o Garbage \o << Newline >>

RECURSIVE attr_print64(_)
attr_print64(ls) ==
    IF Len(ls) = 0 THEN << >>
    ELSE attr_print64_line(Head(ls)) \o attr_print64(Tail(ls))

(***************************************************************************)
(* State.                                                                  *)
(*   stream, pos      the VSTREAM fp: its bytes and how many were read     *)
(*   lines            the lines the stream was written from (history)      *)
(*   calls            the attr_scan64 calls the caller still makes         *)
(*   flags, ap, ai    arguments of the running call; ai counts the wish    *)
(*                    entries taken from the va_list ap                    *)
(*   wanted_type, wanted_name, conversions, ch   locals of attr_vscan64    *)
(*   name_buf, str_buf, base64_buf               the static buffers        *)
(*   dest             the destinations of the wish entries of the call     *)
(*   hash_table       the caller's HTABLE, a set of <<key, value>>         *)
(*   pc, ret          position in attr_vscan64 and its result              *)
(*   hash_from        stream position where the hash phase began (history) *)
(*   table0           the table as it was when the call began (history)    *)
(*   prev             result of the previous call (history)                *)
(***************************************************************************)
VARIABLES stream, pos, lines, calls, flags, ap, ai, wanted_type, wanted_name,
          conversions, ch, name_buf, str_buf, base64_buf, dest, hash_table,
          pc, ret, hash_from, table0, prev

\* The threads of a process in which several threads call attr_scan64, each
\* on a stream of its own: threads[t] holds the stream of thread t and the
\* arguments and locals of its call.  The static buffers above are the
\* ones of the process.
VARIABLES threads

\* The SMTP server's pass-through proxy client (smtpd/smtpd_proxy.c):
\*   state      the SMTPD_STATE: proxy (the stream to the proxy), proxy_buffer,
\*              error_mask and err
\*   buffer     the static VSTRING of smtpd_proxy_cmd
\*   proxy_cmd  the running call of smtpd_proxy_cmd: its arguments, position
\*              and result, and the reply lines it has read (history)
\*   proxy_cmds the calls of smtpd_proxy_cmd the server still makes
\*   proxy_open the running call of smtpd_proxy_open: the proxy service it
\*              connects to, its position and result, and the commands it
\*              has completed (history)
VARIABLES state, buffer, proxy_cmd, proxy_cmds, proxy_open

\* The SMTP client's lookup key builder (smtp/smtp_key.c): key_call holds the
\* arguments of a call of smtp_key_prefix (delim_na, iter with its parent
\* state, flags), the configuration and the build (cfg), the result buffer
\* and the position of the call (pc).
VARIABLES key_call

vars == << stream, pos, lines, calls, flags, ap, ai, wanted_type, wanted_name,
           conversions, ch, name_buf, str_buf, base64_buf, dest, hash_table,
           pc, ret, hash_from, table0, prev, threads,
           state, buffer, proxy_cmd, proxy_cmds, proxy_open, key_call >>

proxy_vars == << state, buffer, proxy_cmd, proxy_cmds, proxy_open >>

\* smtp_key_prefix has not been called
NoKey == key_call = [pc |-> "none"]

\* the state of the single caller, without the static buffers
caller_vars ==
    << stream, pos, lines, calls, flags, ap, ai, wanted_type, wanted_name,
       conversions, ch, dest, hash_table, pc, ret, hash_from, table0, prev >>

ATTR_FLAG_ALL == {"MISSING", "EXTRA", "MORE"}


\* The scanner's part of the state as one record, for the step operators.
Cur ==
    [pc |-> pc, pos |-> pos, flags |-> flags, ap |-> ap, ai |-> ai,
     wanted_type |-> wanted_type, wanted_name |-> wanted_name,
     conversions |-> conversions, ch |-> ch, name_buf |-> name_buf,
     str_buf |-> str_buf, base64_buf |-> base64_buf, dest |-> dest,
     hash_table |-> hash_table, ret |-> ret, hash_from |-> hash_from,
     table0 |-> table0]

Becomes(s) ==
    /\ pc' = s.pc
    /\ pos' = s.pos
    /\ flags' = s.flags
    /\ ap' = s.ap
    /\ ai' = s.ai
    /\ wanted_type' = s.wanted_type
    /\ wanted_name' = s.wanted_name
    /\ conversions' = s.conversions
    /\ ch' = s.ch
    /\ name_buf' = s.name_buf
    /\ str_buf' = s.str_buf
    /\ base64_buf' = s.base64_buf
    /\ dest' = s.dest
    /\ hash_table' = s.hash_table
    /\ ret' = s.ret
    /\ hash_from' = s.hash_from
    /\ table0' = s.table0

(***************************************************************************)
(* VSTREAM_GETC: the next byte, or VSTREAM_EOF at the end of the stream.   *)
(***************************************************************************)
VSTREAM_GETC(p) == IF p < Len(stream) THEN stream[p + 1] ELSE VSTREAM_EOF

(***************************************************************************)
(* attr_scan64_string: read raw bytes up to ':' or newline into            *)
(* base64_buf, then decode them into the caller's buffer.  The length      *)
(* check against 2 * var_line_limit is compiled out (#if 0).  The result   *)
(* is [ch, pos, base64_buf, plain, decoded]: ch is the delimiter or -1,    *)
(* plain the new content of plain_buf when base64_decode ran (decoded).    *)
(***************************************************************************)
RECURSIVE attr_scan64_getc_loop(_, _)
attr_scan64_getc_loop(p, buf) ==
    LET c == VSTREAM_GETC(p)
    IN  IF c = Colon \/ c = Newline THEN [ch |-> c, pos |-> p + 1, buf |-> buf]
        ELSE IF c = VSTREAM_EOF THEN [ch |-> VSTREAM_EOF, pos |-> p, buf |-> buf]
        ELSE attr_scan64_getc_loop(p + 1, Append(buf, c))

attr_scan64_string(p, plain_buf) ==
    LET r == attr_scan64_getc_loop(p, << >>)
        d == base64_decode(r.buf)
    IN  IF r.ch = VSTREAM_EOF
        THEN [ch |-> -1, pos |-> r.pos, base64_buf |-> r.buf,
              plain |-> plain_buf, decoded |-> FALSE]
        ELSE [ch |-> IF d.ok THEN r.ch ELSE -1, pos |-> r.pos,
              base64_buf |-> r.buf, plain |-> d.out, decoded |-> TRUE]

(***************************************************************************)
(* return (x) from attr_vscan64.                                           *)
(***************************************************************************)
Return(s, x) == [s EXCEPT !.pc = "done", !.ret = x]

msg_panic(s) == [s EXCEPT !.pc = "panic"]

\* wanted_name of an END or HASH entry: a text that is only logged
Placeholder == << >>

(***************************************************************************)
(* Faulty variants of NextWish, for checking that the properties depend on *)
(* it: one that takes every call as a Continue call, one that never does.  *)
(***************************************************************************)
NextWish_always_more(s) ==
    IF s.wanted_type = "HASH" THEN [s EXCEPT !.pc = "locate"]
    ELSE
      LET i == s.ai + 1
          t == s.ap[i].type
          n == [s EXCEPT !.ai = i, !.wanted_type = t]
      IN  IF t = "END" THEN Return(n, s.conversions)
          ELSE IF t = "HASH" THEN
              IF s.ap[i + 1].type # "END" THEN msg_panic(n)
              ELSE [n EXCEPT !.wanted_name = Placeholder, !.pc = "locate",
                             !.hash_from = s.pos]
          ELSE [n EXCEPT !.wanted_name = s.ap[i].name, !.pc = "locate"]

NextWish_never_more(s) ==
    IF s.wanted_type = "HASH" THEN [s EXCEPT !.pc = "locate"]
    ELSE
      LET i == s.ai + 1
          t == s.ap[i].type
          n == [s EXCEPT !.ai = i, !.wanted_type = t]
      IN  IF t = "END" THEN
              [n EXCEPT !.wanted_name = Placeholder, !.pc = "locate"]
          ELSE IF t = "HASH" THEN
              IF s.ap[i + 1].type # "END" THEN msg_panic(n)
              ELSE [n EXCEPT !.wanted_name = Placeholder, !.pc = "locate",
                             !.hash_from = s.pos]
          ELSE [n EXCEPT !.wanted_name = s.ap[i].name, !.pc = "locate"]

(***************************************************************************)
(* attr_vscan64, top of the for loop: the next entry of the wish list.     *)
(***************************************************************************)
NextWish(s) ==
    IF s.wanted_type = "HASH" THEN [s EXCEPT !.pc = "locate"]
    ELSE
      LET i == s.ai + 1
          t == s.ap[i].type
          n == [s EXCEPT !.ai = i, !.wanted_type = t]
      IN  IF t = "END" THEN
              IF "MORE" \in s.flags THEN Return(n, s.conversions)
              ELSE [n EXCEPT !.wanted_name = Placeholder, !.pc = "locate"]
          ELSE IF t = "HASH" THEN
              IF s.ap[i + 1].type # "END" THEN msg_panic(n)
              ELSE [n EXCEPT !.wanted_name = Placeholder, !.pc = "locate",
                             !.hash_from = s.pos]
          ELSE [n EXCEPT !.wanted_name = s.ap[i].name, !.pc = "locate"]

(***************************************************************************)
(* Faulty variants of Locate.  LocateWith(s, r, eof, ends, at_end, stop)   *)
(* is the locate step on the name read r with its four decisions given:    *)
(* the result at end-of-stream, whether the line read ends the list, the   *)
(* result when the list ends, and whether an unrequested attribute stops   *)
(* the scan.                                                               *)
(***************************************************************************)
LocateWith(s, r, eof, ends, at_end, stop) ==
    LET n == [s EXCEPT !.pos = r.pos, !.ch = r.ch, !.name_buf = r.plain,
                       !.base64_buf = r.base64_buf]
    IN  IF r.ch = VSTREAM_EOF THEN Return(n, eof)
        ELSE IF ends THEN Return(n, at_end)
        ELSE IF \/ s.wanted_type = "HASH"
                \/ /\ s.wanted_type # "END"
                   /\ strcmp(s.wanted_name, r.plain) = 0
             THEN [n EXCEPT !.pc = "convert"]
        ELSE IF stop THEN Return(n, s.conversions)
        ELSE [n EXCEPT !.pc = "skip"]

\* stops at every unrequested attribute, as if ReportExtra were always set
Locate_always_stops(s) ==
    LET r == attr_scan64_string(s.pos, s.name_buf)
    IN  LocateWith(s, r, -1, r.ch = Newline /\ Len(r.plain) = 0,
                   s.conversions, TRUE)

\* skips every unrequested attribute, as if ReportExtra were never set
Locate_never_stops(s) ==
    LET r == attr_scan64_string(s.pos, s.name_buf)
    IN  LocateWith(s, r, -1, r.ch = Newline /\ Len(r.plain) = 0,
                   s.conversions, FALSE)

\* takes every name of length 0 as the list terminator
Locate_empty_name_ends(s) ==
    LET r == attr_scan64_string(s.pos, s.name_buf)
    IN  LocateWith(s, r, -1, Len(r.plain) = 0, s.conversions,
                   "EXTRA" \in s.flags)

\* a missing attribute is a fault when ReportMissing is set
Locate_missing_is_fault(s) ==
    LET r == attr_scan64_string(s.pos, s.name_buf)
    IN  LocateWith(s, r, -1, r.ch = Newline /\ Len(r.plain) = 0,
                   IF s.wanted_type \notin {"END", "HASH"}
                      /\ "MISSING" \in s.flags
                   THEN -1 ELSE s.conversions,
                   "EXTRA" \in s.flags)

\* at the END of the wish list the first attribute found stops the scan
Locate_end_stops(s) ==
    LET r == attr_scan64_string(s.pos, s.name_buf)
    IN  LocateWith(s, r, -1, r.ch = Newline /\ Len(r.plain) = 0,
                   s.conversions,
                   "EXTRA" \in s.flags \/ s.wanted_type = "END")

\* end-of-stream ends the list like a terminator
Locate_eof_is_end(s) ==
    LET r == attr_scan64_string(s.pos, s.name_buf)
    IN  LocateWith(s, r, s.conversions, r.ch = Newline /\ Len(r.plain) = 0,
                   s.conversions, "EXTRA" \in s.flags)

\* end-of-stream in a name is skipped like an unrequested attribute
Locate_eof_skips(s) ==
    LET r == attr_scan64_string(s.pos, s.name_buf)
        n == [s EXCEPT !.pos = r.pos, !.ch = r.ch, !.name_buf = r.plain,
                       !.base64_buf = r.base64_buf]
    IN  IF r.ch = VSTREAM_EOF THEN [n EXCEPT !.pc = "skip"]
        ELSE IF r.ch = Newline /\ Len(r.plain) = 0 THEN Return(n, s.conversions)
        ELSE IF \/ s.wanted_type = "HASH"
                \/ /\ s.wanted_type # "END"
                   /\ strcmp(s.wanted_name, r.plain) = 0
             THEN [n EXCEPT !.pc = "convert"]
        ELSE IF "EXTRA" \in s.flags THEN Return(n, s.conversions)
        ELSE [n EXCEPT !.pc = "skip"]

(***************************************************************************)
(* attr_vscan64, the locate loop up to its break: read the next name.      *)
(***************************************************************************)
Locate(s) ==
    LET r == attr_scan64_string(s.pos, s.name_buf)
        n == [s EXCEPT !.pos = r.pos, !.ch = r.ch, !.name_buf = r.plain,
                       !.base64_buf = r.base64_buf]
    IN  IF r.ch = VSTREAM_EOF THEN Return(n, -1)
        ELSE IF r.ch = Newline /\ Len(r.plain) = 0 THEN Return(n, s.conversions)
        ELSE IF \/ s.wanted_type = "HASH"
                \/ /\ s.wanted_type # "END"
                   /\ strcmp(s.wanted_name, r.plain) = 0
             THEN [n EXCEPT !.pc = "convert"]
        ELSE IF "EXTRA" \in s.flags THEN Return(n, s.conversions)
        ELSE [n EXCEPT !.pc = "skip"]

(***************************************************************************)
(* attr_vscan64, the skip loop: read up to a newline or the end of input.  *)
(***************************************************************************)
RECURSIVE skip_loop(_)
skip_loop(p) ==
    LET c == VSTREAM_GETC(p)
    IN  IF c = VSTREAM_EOF THEN [ch |-> c, pos |-> p]
        ELSE IF c = Newline THEN [ch |-> c, pos |-> p + 1]
        ELSE skip_loop(p + 1)

Skip(s) ==
    LET r == skip_loop(s.pos)
    IN  [s EXCEPT !.pos = r.pos, !.ch = r.ch, !.pc = "locate"]


(***************************************************************************)
(* sscanf(text, "%u%c", ptr, &junk) and its "%lu%c" form.  text is a C     *)
(* string.  %u skips white space, takes an optional sign and the longest   *)
(* run of digits; %c then takes one more character if there is one.  The   *)
(* result is [items, num]: the number of items assigned and the number     *)
(* stored through ptr, as [neg, digits, wide] with the digits in canonical *)
(* form; wide says that the digits exceed the width of the type, a case    *)
(* in which the stored value is whatever the C library produces.           *)
(***************************************************************************)
isspace(c) == c = 32 \/ (c >= 9 /\ c <= 13)

isdigit(c) == c >= 48 /\ c <= 57

RECURSIVE skip_space(_)
skip_space(t) ==
    IF Len(t) > 0 /\ isspace(t[1]) THEN skip_space(Tail(t)) ELSE t

RECURSIVE digit_run(_)
digit_run(t) ==
    IF Len(t) > 0 /\ isdigit(t[1]) THEN << t[1] >> \o digit_run(Tail(t))
    ELSE << >>

RECURSIVE canonical(_)
canonical(d) ==
    IF Len(d) > 1 /\ d[1] = 48 THEN canonical(Tail(d)) ELSE d

RECURSIVE digits_greater(_, _)
digits_greater(a, b) ==
    IF Len(a) # Len(b) THEN Len(a) > Len(b)
    ELSE IF Len(a) = 0 THEN FALSE
    ELSE IF a[1] # b[1] THEN a[1] > b[1]
    ELSE digits_greater(Tail(a), Tail(b))

\* "4294967295" and "18446744073709551615"
UINT_MAX_digits == << 52, 50, 57, 52, 57, 54, 55, 50, 57, 53 >>
ULONG_MAX_digits ==
    << 49, 56, 52, 52, 54, 55, 52, 52, 48, 55, 51, 55, 48, 57, 53, 53, 49,
       54, 49, 53 >>

NoNumber == [neg |-> FALSE, digits |-> << >>, wide |-> FALSE]

\* a destination the scan has not stored into
Unwritten == [written |-> FALSE, str |-> << >>, num |-> NoNumber]

sscanf_unsigned(text, max_digits) ==
    LET t0 == skip_space(STR(text))
        signed == Len(t0) > 0 /\ (t0[1] = 43 \/ t0[1] = 45)
        t1 == IF signed THEN Tail(t0) ELSE t0
        ds == digit_run(t1)
        rest == SubSeq(t1, Len(ds) + 1, Len(t1))
    IN  IF Len(ds) = 0 THEN [items |-> 0, num |-> NoNumber]
        ELSE [items |-> IF Len(rest) > 0 THEN 2 ELSE 1,
              num |-> [neg |-> signed /\ t0[1] = 45,
                       digits |-> canonical(ds),
                       wide |-> digits_greater(canonical(ds), max_digits)]]

(***************************************************************************)
(* attr_scan64_number and attr_scan64_long_number: read a value field and  *)
(* convert it.  The result is the one of attr_scan64_string, with ch = -1  *)
(* when the conversion fails, and the number stored through ptr, if any.   *)
(***************************************************************************)
attr_scan64_number_of(p, str_buf_in, max_digits) ==
    LET r == attr_scan64_string(p, str_buf_in)
        c == sscanf_unsigned(r.plain, max_digits)
    IN  IF r.ch < 0 THEN [r |-> r, ch |-> -1, stored |-> FALSE, num |-> NoNumber]
        ELSE [r |-> r,
              ch |-> IF c.items # 1 THEN -1 ELSE r.ch,
              stored |-> c.items >= 1,
              num |-> c.num]

attr_scan64_number(p, str_buf_in) ==
    attr_scan64_number_of(p, str_buf_in, UINT_MAX_digits)

attr_scan64_long_number(p, str_buf_in) ==
    attr_scan64_number_of(p, str_buf_in, ULONG_MAX_digits)

(***************************************************************************)
(* HTABLE: htable_locate and htable_enter on C string keys; the value is   *)
(* mystrdup(STR(str_buf)).                                                 *)
(***************************************************************************)
htable_locate(table, key) == \E e \in table : e[1] = STR(key)

htable_enter(table, key, value) == table \cup { << STR(key), STR(value) >> }

(***************************************************************************)
(* attr_vscan64, the switch on wanted_type and the loop's conversions++.   *)
(***************************************************************************)
\* a faulty variant of NextIteration: the conversion is not counted
NextIteration_uncounted(s) == [s EXCEPT !.pc = "wish"]

NextIteration(s) ==
    [s EXCEPT !.conversions = s.conversions + 1, !.pc = "wish"]

ConvertNumber(s, n) ==
    LET m == [s EXCEPT !.pos = n.r.pos, !.ch = n.ch,
                       !.str_buf = n.r.plain,
                       !.base64_buf = n.r.base64_buf,
                       !.dest[s.ai] =
                           IF n.stored
                           THEN [written |-> TRUE, str |-> << >>, num |-> n.num]
                           ELSE s.dest[s.ai]]
    IN  IF s.ch # Colon THEN Return(s, -1)
        ELSE IF n.ch < 0 THEN Return(m, -1)
        ELSE IF n.ch # Newline THEN Return(m, -1)
        ELSE NextIteration(m)

\* a faulty variant of ConvertString: an absent value or a second value
\* ends the scan with the count so far
ConvertString_partial_count(s) ==
    LET r == attr_scan64_string(s.pos, s.dest[s.ai].str)
        m == [s EXCEPT !.pos = r.pos, !.ch = r.ch,
                       !.base64_buf = r.base64_buf,
                       !.dest[s.ai] =
                           IF r.decoded
                           THEN [written |-> TRUE, str |-> r.plain,
                                 num |-> NoNumber]
                           ELSE s.dest[s.ai]]
    IN  IF s.ch # Colon THEN Return(s, s.conversions)
        ELSE IF r.ch < 0 THEN Return(m, -1)
        ELSE IF r.ch # Newline THEN Return(m, s.conversions)
        ELSE NextIteration(m)

ConvertString(s) ==
    LET r == attr_scan64_string(s.pos, s.dest[s.ai].str)
        m == [s EXCEPT !.pos = r.pos, !.ch = r.ch,
                       !.base64_buf = r.base64_buf,
                       !.dest[s.ai] =
                           IF r.decoded
                           THEN [written |-> TRUE, str |-> r.plain,
                                 num |-> NoNumber]
                           ELSE s.dest[s.ai]]
    IN  IF s.ch # Colon THEN Return(s, -1)
        ELSE IF r.ch < 0 THEN Return(m, -1)
        ELSE IF r.ch # Newline THEN Return(m, -1)
        ELSE NextIteration(m)

\* a faulty variant of ConvertHash: a later value replaces the stored one
ConvertHash_overwrite(s) ==
    LET r == attr_scan64_string(s.pos, s.str_buf)
        m == [s EXCEPT !.pos = r.pos, !.ch = r.ch, !.str_buf = r.plain,
                       !.base64_buf = r.base64_buf]
    IN  IF s.ch # Colon THEN Return(s, -1)
        ELSE IF r.ch < 0 THEN Return(m, -1)
        ELSE IF r.ch # Newline THEN Return(m, -1)
        ELSE NextIteration(
                 [m EXCEPT !.hash_table =
                     { e \in s.hash_table : e[1] # STR(s.name_buf) }
                         \cup { << STR(s.name_buf), STR(r.plain) >> }])

ConvertHash(s) ==
    LET r == attr_scan64_string(s.pos, s.str_buf)
        m == [s EXCEPT !.pos = r.pos, !.ch = r.ch, !.str_buf = r.plain,
                       !.base64_buf = r.base64_buf]
    IN  IF s.ch # Colon THEN Return(s, -1)
        ELSE IF r.ch < 0 THEN Return(m, -1)
        ELSE IF r.ch # Newline THEN Return(m, -1)
        ELSE IF htable_locate(s.hash_table, s.name_buf) THEN
            IF "EXTRA" \in s.flags THEN Return(m, s.conversions)
            ELSE NextIteration(m)
        ELSE NextIteration(
                 [m EXCEPT !.hash_table =
                     htable_enter(s.hash_table, s.name_buf, r.plain)])

Convert(s) ==
    CASE s.wanted_type = "NUM"  ->
             ConvertNumber(s, attr_scan64_number(s.pos, s.str_buf))
      [] s.wanted_type = "LONG" ->
             ConvertNumber(s, attr_scan64_long_number(s.pos, s.str_buf))
      [] s.wanted_type = "STR"  -> ConvertString(s)
      [] s.wanted_type = "HASH" -> ConvertHash(s)
      [] OTHER -> msg_panic(s)


(***************************************************************************)
(* attr_scan64 / attr_vscan64 entry: the sanity check of the flags and     *)
(* the initialisation of the loop.  c is the call: [flags, ap].            *)
(***************************************************************************)
\* a faulty variant of attr_vscan64: the flags are not checked
attr_vscan64_unchecked(s, c) ==
    [s EXCEPT !.flags = c.flags, !.ap = c.ap, !.ai = 0,
              !.wanted_type = "NONE", !.conversions = 0,
              !.dest = [i \in 1..Len(c.ap) |-> Unwritten],
              !.hash_from = -1, !.table0 = s.hash_table,
              !.ret = 0, !.pc = "wish"]

attr_vscan64(s, c) ==
    LET n == [s EXCEPT !.flags = c.flags, !.ap = c.ap, !.ai = 0,
                       !.wanted_type = "NONE", !.conversions = 0,
                       !.dest = [i \in 1..Len(c.ap) |-> Unwritten],
                       !.hash_from = -1, !.table0 = s.hash_table,
                       !.ret = 0]
    IN  IF c.flags \ ATTR_FLAG_ALL # {} THEN msg_panic(n)
        ELSE [n EXCEPT !.pc = "wish"]

(***************************************************************************)
(* One step of attr_vscan64 from the position s.pc, and the whole call:    *)
(* the steps up to the return or the panic.                                *)
(***************************************************************************)
Step(s) ==
    CASE s.pc = "wish"    -> NextWish(s)
      [] s.pc = "locate"  -> Locate(s)
      [] s.pc = "skip"    -> Skip(s)
      [] s.pc = "convert" -> Convert(s)

RECURSIVE Run(_)
Run(s) == IF s.pc \in {"done", "panic"} THEN s ELSE Run(Step(s))

(***************************************************************************)
(* Actions: one per step of attr_vscan64.                                  *)
(***************************************************************************)
Call ==
    /\ pc \in {"idle", "done"}
    /\ calls # << >>
    /\ calls' = Tail(calls)
    /\ prev' = IF pc = "done"
               THEN Append(prev, [ret |-> ret, pos |-> pos, dest |-> dest,
                                  flags |-> flags, ap |-> ap,
                                  wanted_type |-> wanted_type])
               ELSE prev
    /\ Becomes(attr_vscan64(Cur, Head(calls)))
    /\ UNCHANGED << stream, lines, threads, proxy_vars, key_call >>

NextWishStep ==
    /\ pc = "wish"
    /\ Becomes(NextWish(Cur))
    /\ UNCHANGED << stream, lines, calls, prev, threads, proxy_vars, key_call >>

LocateStep ==
    /\ pc = "locate"
    /\ Becomes(Locate(Cur))
    /\ UNCHANGED << stream, lines, calls, prev, threads, proxy_vars, key_call >>

SkipStep ==
    /\ pc = "skip"
    /\ Becomes(Skip(Cur))
    /\ UNCHANGED << stream, lines, calls, prev, threads, proxy_vars, key_call >>

ConvertStep ==
    /\ pc = "convert"
    /\ Becomes(Convert(Cur))
    /\ UNCHANGED << stream, lines, calls, prev, threads, proxy_vars, key_call >>

Next == Call \/ NextWishStep \/ LocateStep \/ SkipStep \/ ConvertStep

(***************************************************************************)
(* Inputs: the streams the peer may have written and the calls the caller  *)
(* makes on them.                                                          *)
(***************************************************************************)
SeqsUpTo(S, n) == UNION { [1..k -> S] : k \in 0..n }

NameA == << 65 >>
NameB == << 66 >>
NameX == << 88 >>

Attr(n, v) == [shape |-> "attr", name |-> n, value |-> v]
Shaped(sh, n) == [shape |-> sh, name |-> n, value |-> << 49 >>]
Term == [shape |-> "term", name |-> << >>, value |-> << >>]

Wish(t, n) == [type |-> t, name |-> n]
END == Wish("END", << >>)
HASH == Wish("HASH", << >>)

AllFlags == SUBSET ATTR_FLAG_ALL

\* the i-th attribute of a list carries the digit i as its value
Numbered(ns) == [i \in 1..Len(ns) |-> Attr(ns[i], << 48 + i >>)]

SecondList == << Attr(NameB, << 56 >>), Term >>

\* The state before the first call: the stream holds the first cut bytes
\* of the lines ls, the caller will make the calls cs with the table tbl.
Caller(ls, cut, cs, tbl) ==
    /\ stream = SubSeq(attr_print64(ls), 1, cut)
    /\ lines = ls
    /\ calls = cs
    /\ hash_table = tbl
    /\ pos = 0
    /\ pc = "idle"
    /\ flags = {}
    /\ ap = << >>
    /\ ai = 0
    /\ wanted_type = "NONE"
    /\ wanted_name = << >>
    /\ conversions = 0
    /\ ch = 0
    /\ name_buf = << >>
    /\ str_buf = << >>
    /\ base64_buf = << >>
    /\ dest = << >>
    /\ ret = 0
    /\ hash_from = -1
    /\ table0 = tbl
    /\ prev = << >>

\* a process without a proxy connection
NoProxy ==
    /\ state = [proxy |-> [open |-> FALSE], proxy_buffer |-> << >>,
                error_mask |-> {}, err |-> {}]
    /\ buffer = << >>
    /\ proxy_cmd = [pc |-> "idle"]
    /\ proxy_cmds = << >>
    /\ proxy_open = [pc |-> "none"]

\* the single caller of the test program: there are no threads
Start(ls, cut, cs, tbl) ==
    /\ Caller(ls, cut, cs, tbl)
    /\ threads = << >>
    /\ NoProxy
    /\ NoKey

Whole(ls, cs, tbl) == Start(ls, Len(attr_print64(ls)), cs, tbl)

\* Well-formed lists of A, B and an unrequested X, scanned with every wish
\* list of up to two strings, with or without a hash table; a second call
\* follows on the same stream.
InitOrder ==
    \E ns \in SeqsUpTo({NameA, NameB, NameX}, MaxAttrs),
       f \in AllFlags,
       ws \in SeqsUpTo({Wish("STR", NameA), Wish("STR", NameB)}, 2),
       tl \in { << END >>, << HASH, END >> } :
        Whole(Numbered(ns) \o << Term >> \o SecondList,
              << [flags |-> f, ap |-> ws \o tl],
                 [flags |-> {}, ap |-> << Wish("STR", NameB), END >>] >>,
              {})

\* The same lists scanned into a table that already holds B.
InitTable ==
    \E ns \in SeqsUpTo({NameA, NameB, NameX}, MaxAttrs),
       f \in AllFlags,
       ws \in { << >>, << Wish("STR", NameA) >> } :
        Whole(Numbered(ns) \o << Term >>,
              << [flags |-> f, ap |-> ws \o << HASH, END >>] >>,
              { << NameB, << 48 >> >> })

\* Every kind of wish against short well-formed lists.
InitKinds ==
    \E ns \in SeqsUpTo({NameA, NameB, NameX}, MaxShort),
       f \in AllFlags,
       k1 \in {"NUM", "LONG", "STR"}, k2 \in {"NUM", "LONG", "STR"} :
        Whole(Numbered(ns) \o << Term >>,
              << [flags |-> f,
                  ap |-> << Wish(k1, NameA), Wish(k2, NameB), END >>] >>,
              {})

ShortWishes ==
    { << END >>, << Wish("STR", NameA), END >>, << HASH, END >>,
      << Wish("NUM", NameA), Wish("LONG", NameB), END >> }

\* Streams that end anywhere: every prefix of a short list.
InitEof ==
    \E ls \in SeqsUpTo({ Attr(NameA, << 49 >>), Attr(NameX, << 50 >>),
                         Shaped("noval", NameX) }, MaxShort) :
      \E cut \in 0..Len(attr_print64(ls \o << Term >>)),
         f \in AllFlags, w \in ShortWishes :
          Start(ls \o << Term >>, cut, << [flags |-> f, ap |-> w] >>, {})

\* Lists with malformed lines, a name of length 0 before a colon, and a
\* name longer than 2 * var_line_limit when encoded.
LongName == << 65, 65, 65, 65 >>

BadLines ==
    { Attr(NameA, << 49 >>), Attr(NameX, << 50 >>), Shaped("noval", NameA),
      Shaped("multi", NameA), Shaped("badname", NameA),
      Shaped("badvalue", NameA), Attr(<< >>, << 51 >>),
      Attr(LongName, << 52 >>) }

InitBad ==
    \E ls \in SeqsUpTo(BadLines, MaxShort),
       f \in AllFlags,
       w \in ShortWishes \cup { << Wish("STR", LongName), END >> } :
        Whole(ls \o << Term >>, << [flags |-> f, ap |-> w] >>, {})

\* Round trips: names and values with ':' and newline bytes, of every
\* length modulo 3, and of length 0; the wish list names the wire's names
\* in the wire's order.
RTNames == { NameA, << 58 >>, << 10, 58 >>, << >> }
RTValues == { << 49 >>, << 58, 10, 58 >>, << >> }

InitRoundTrip ==
    \E ls \in SeqsUpTo({ Attr(n, v) : n \in RTNames, v \in RTValues }, MaxRT),
       f \in SUBSET {"MISSING", "EXTRA"} :
        Whole(ls \o << Term >>,
              << [flags |-> f,
                  ap |-> [i \in 1..Len(ls) |-> Wish("STR", ls[i].name)]
                            \o << END >>] >>,
              {})

\* Numeric values: the texts a peer may send for a number: "12", "007",
\* "12a", "-1", "+1", " 1", "", "a", 2^32 (too wide for unsigned, not for
\* unsigned long) and a number of 21 digits (too wide for both).
NumberTexts ==
    { << 49, 50 >>, << 48, 48, 55 >>, << 49, 50, 97 >>, << 45, 49 >>,
      << 43, 49 >>, << 32, 49 >>, << >>, << 97 >>,
      << 52, 50, 57, 52, 57, 54, 55, 50, 57, 54 >>,
      ULONG_MAX_digits \o << 48 >> }

InitNumbers ==
    \E v \in NumberTexts, f \in AllFlags, k \in {"NUM", "LONG"} :
        Whole(<< Attr(NameA, v), Term >>,
              << [flags |-> f, ap |-> << Wish(k, NameA), END >>] >>,
              {})

\* A well-formed attribute A followed by an attribute B with one value, with
\* no value, or with two values; B is wished as every kind, after A or in
\* a hash phase.
ShapeWishes ==
    { << Wish(k1, NameA), Wish(k2, NameB), END >> :
          k1 \in {"NUM", "STR"}, k2 \in {"NUM", "LONG", "STR"} }
    \cup { << HASH, END >>, << Wish("STR", NameA), HASH, END >> }

InitShape ==
    \E sh \in {"attr", "noval", "multi"}, f \in AllFlags, w \in ShapeWishes :
        Whole(<< Attr(NameA, << 49 >>), Shaped(sh, NameB), Term >>,
              << [flags |-> f, ap |-> w] >>,
              {})

\* Calls that break the caller's contract: a wish of a kind that does not
\* exist, a flag that does not exist, a hash entry that END does not
\* follow; on an empty stream, an empty list and lists of A and X.
ContractWires ==
    { << >>, << Term >>, << Attr(NameA, << 49 >>), Term >>,
      << Attr(NameX, << 50 >>), Attr(NameA, << 49 >>), Term >>,
      << Attr(NameA, << 49 >>), Attr(NameX, << 50 >>), Term >> }

UnknownKindWishes ==
    { << Wish("BAD", NameA), END >>,
      << Wish("STR", NameA), Wish("BAD", NameX), END >>,
      << Wish("BAD", NameA), HASH, END >> }

InitUnknownKind ==
    \E ls \in ContractWires, f \in AllFlags, w \in UnknownKindWishes :
        Whole(ls, << [flags |-> f, ap |-> w] >>, {})

InitBadFlags ==
    \E ls \in ContractWires, f \in AllFlags, w \in ShortWishes :
        Whole(ls, << [flags |-> f \cup {"UNKNOWN"}, ap |-> w] >>, {})

BadHashWishes ==
    { << HASH, Wish("STR", NameA), END >>,
      << Wish("STR", NameA), HASH, Wish("STR", NameX), END >>,
      << HASH, HASH, END >> }

InitBadHash ==
    \E ls \in ContractWires, f \in AllFlags, w \in BadHashWishes :
        Whole(ls, << [flags |-> f, ap |-> w] >>, {})

Init ==
    \/ InitOrder
    \/ InitTable
    \/ InitKinds
    \/ InitEof
    \/ InitBad
    \/ InitRoundTrip
    \/ InitNumbers
    \/ InitShape
    \/ InitUnknownKind
    \/ InitBadFlags
    \/ InitBadHash

Spec == Init /\ [][Next]_vars

(***************************************************************************)
(* The call runs to its end on the calling thread: a call that has not     *)
(* returned takes its next step.  Advance is that step seen on pc alone:   *)
(* every step of Next from a position inside attr_vscan64 is one of        *)
(* NextWishStep, LocateStep, SkipStep and ConvertStep, and each of them    *)
(* changes pc, so weak fairness of Advance is weak fairness of these       *)
(* steps.                                                                  *)
(***************************************************************************)
Running == pc \in {"wish", "locate", "skip", "convert"}

Ended == pc \in {"done", "panic"}

Advance ==
    /\ Running
    /\ pc' \in {"wish", "locate", "skip", "convert", "done", "panic"}

FairSpec == Spec /\ WF_pc(Advance)

(***************************************************************************)
(* Two threads.  Each thread calls attr_scan64 once, on its own stream     *)
(* with its own wish list, destinations and table; the threads take turns  *)
(* at the reads of a byte: a step of a thread is one VSTREAM_GETC and the  *)
(* code that follows it up to the next VSTREAM_GETC of that thread.        *)
(* base64_buf (static in attr_scan64_string), str_buf and name_buf (static *)
(* in attr_vscan64) exist once in the process.                             *)
(***************************************************************************)
Threads == {1, 2}

\* the call of thread t as one record: its own part and the statics
Joined(t) ==
    [pc |-> threads[t].pc, stream |-> threads[t].stream,
     pos |-> threads[t].pos, flags |-> threads[t].flags,
     ap |-> threads[t].ap, ai |-> threads[t].ai,
     wanted_type |-> threads[t].wanted_type,
     wanted_name |-> threads[t].wanted_name,
     conversions |-> threads[t].conversions, ch |-> threads[t].ch,
     dest |-> threads[t].dest, hash_table |-> threads[t].hash_table,
     ret |-> threads[t].ret, hash_from |-> threads[t].hash_from,
     table0 |-> threads[t].table0,
     name_buf |-> name_buf, str_buf |-> str_buf, base64_buf |-> base64_buf]

Local(s) ==
    [pc |-> s.pc, stream |-> s.stream, pos |-> s.pos, flags |-> s.flags,
     ap |-> s.ap, ai |-> s.ai, wanted_type |-> s.wanted_type,
     wanted_name |-> s.wanted_name, conversions |-> s.conversions,
     ch |-> s.ch, dest |-> s.dest, hash_table |-> s.hash_table,
     ret |-> s.ret, hash_from |-> s.hash_from, table0 |-> s.table0]

\* thread t goes to s
ThreadBecomes(t, s) ==
    /\ threads' = [threads EXCEPT ![t] = Local(s)]
    /\ name_buf' = s.name_buf
    /\ str_buf' = s.str_buf
    /\ base64_buf' = s.base64_buf

\* VSTREAM_GETC on the stream of the call s
T_GETC(s) == IF s.pos < Len(s.stream) THEN s.stream[s.pos + 1] ELSE VSTREAM_EOF

\* attr_scan64_string up to its loop: VSTRING_RESET(base64_buf); what is
\* "name" or "value", the field that is read next
T_string_begin(s, what) == [s EXCEPT !.base64_buf = << >>, !.pc = what]

\* the top of the for loop, up to the first read of the next name
T_wish(s) ==
    LET n == NextWish(s)
    IN  IF n.pc = "locate" THEN T_string_begin(n, "name") ELSE n

\* the entry of attr_vscan64, up to the first read
T_call(s) ==
    LET n == attr_vscan64(s, [flags |-> s.flags, ap |-> s.ap])
    IN  IF n.pc = "wish" THEN T_wish(n) ELSE n

\* one byte of a name; at the delimiter base64_decode into name_buf, the
\* rest of the locate loop and the switch up to the read of the value
T_name(s) ==
    LET c == T_GETC(s)
        d == base64_decode(s.base64_buf)
        r == [ch |-> IF d.ok THEN c ELSE -1, pos |-> s.pos + 1,
              base64_buf |-> s.base64_buf, plain |-> d.out]
        n == LocateWith(s, r, -1, r.ch = Newline /\ Len(r.plain) = 0,
                        s.conversions, "EXTRA" \in s.flags)
    IN  IF c = VSTREAM_EOF THEN Return([s EXCEPT !.ch = -1], -1)
        ELSE IF c # Colon /\ c # Newline
             THEN [s EXCEPT !.pos = s.pos + 1,
                            !.base64_buf = Append(s.base64_buf, c)]
        ELSE IF n.pc # "convert" THEN n
        ELSE IF s.wanted_type \notin {"NUM", "LONG", "STR", "HASH"}
             THEN msg_panic(n)
        ELSE IF n.ch # Colon THEN Return(n, -1)
        ELSE T_string_begin(n, "value")

\* one byte of an attribute that is skipped
T_skip(s) ==
    LET c == T_GETC(s)
    IN  IF c = VSTREAM_EOF THEN T_string_begin([s EXCEPT !.ch = c], "name")
        ELSE IF c = Newline
             THEN T_string_begin([s EXCEPT !.ch = c, !.pos = s.pos + 1], "name")
        ELSE [s EXCEPT !.ch = c, !.pos = s.pos + 1]

\* one byte of a value; at the delimiter base64_decode into the string of
\* the caller or into str_buf, the conversion, and the next pass through
\* the for loop up to its first read
T_value(s) ==
    LET c == T_GETC(s)
        d == base64_decode(s.base64_buf)
        rch == IF d.ok THEN c ELSE -1
        sc == sscanf_unsigned(d.out, IF s.wanted_type = "NUM"
                                     THEN UINT_MAX_digits
                                     ELSE ULONG_MAX_digits)
        m == [s EXCEPT !.pos = s.pos + 1, !.ch = rch]
        str == [m EXCEPT !.dest[s.ai] =
                    [written |-> TRUE, str |-> d.out, num |-> NoNumber]]
        buf == [m EXCEPT !.str_buf = d.out]
        num == [buf EXCEPT !.ch = IF rch >= 0 /\ sc.items # 1 THEN -1 ELSE rch,
                           !.dest[s.ai] =
                               IF rch >= 0 /\ sc.items >= 1
                               THEN [written |-> TRUE, str |-> << >>,
                                     num |-> sc.num]
                               ELSE s.dest[s.ai]]
        v == CASE s.wanted_type = "STR" -> str
               [] s.wanted_type = "HASH" -> buf
               [] OTHER -> num
    IN  IF c = VSTREAM_EOF THEN Return([s EXCEPT !.ch = -1], -1)
        ELSE IF c # Colon /\ c # Newline
             THEN [s EXCEPT !.pos = s.pos + 1,
                            !.base64_buf = Append(s.base64_buf, c)]
        ELSE IF v.ch < 0 THEN Return(v, -1)
        ELSE IF v.ch # Newline THEN Return(v, -1)
        ELSE IF s.wanted_type # "HASH" THEN T_wish(NextIteration(v))
        ELSE IF htable_locate(s.hash_table, s.name_buf) THEN
            IF "EXTRA" \in s.flags THEN Return(v, s.conversions)
            ELSE T_wish(NextIteration(v))
        ELSE T_wish(NextIteration(
                 [v EXCEPT !.hash_table =
                     htable_enter(s.hash_table, s.name_buf, d.out)]))

T_step(s) ==
    CASE s.pc = "idle"  -> T_call(s)
      [] s.pc = "name"  -> T_name(s)
      [] s.pc = "skip"  -> T_skip(s)
      [] s.pc = "value" -> T_value(s)

ThreadCall(t) ==
    /\ threads[t].pc = "idle"
    /\ ThreadBecomes(t, T_call(Joined(t)))
    /\ UNCHANGED << caller_vars, proxy_vars, key_call >>

ThreadName(t) ==
    /\ threads[t].pc = "name"
    /\ ThreadBecomes(t, T_name(Joined(t)))
    /\ UNCHANGED << caller_vars, proxy_vars, key_call >>

ThreadSkip(t) ==
    /\ threads[t].pc = "skip"
    /\ ThreadBecomes(t, T_skip(Joined(t)))
    /\ UNCHANGED << caller_vars, proxy_vars, key_call >>

ThreadValue(t) ==
    /\ threads[t].pc = "value"
    /\ ThreadBecomes(t, T_value(Joined(t)))
    /\ UNCHANGED << caller_vars, proxy_vars, key_call >>

ThreadNext ==
    \E t \in Threads :
        ThreadCall(t) \/ ThreadName(t) \/ ThreadSkip(t) \/ ThreadValue(t)

\* thread t before its call of attr_scan64(fp, c.flags, c.ap...) on a
\* stream that holds the lines ls
ThreadStart(ls, c) ==
    [pc |-> "idle", stream |-> attr_print64(ls), pos |-> 0,
     flags |-> c.flags, ap |-> c.ap, ai |-> 0, wanted_type |-> "NONE",
     wanted_name |-> << >>, conversions |-> 0, ch |-> 0,
     dest |-> [i \in 1..Len(c.ap) |-> Unwritten], hash_table |-> {},
     ret |-> 0, hash_from |-> -1, table0 |-> {}]

\* thread 1 scans a list with A, as a string, a number or into a table;
\* thread 2 scans a list with B
ThreadWires1 ==
    { << Attr(NameA, << 49 >>), Term >>,
      << Attr(NameX, << 50 >>), Attr(NameA, << 49 >>), Term >> }

ThreadWishes1 ==
    { << Wish("STR", NameA), END >>, << Wish("NUM", NameA), END >>,
      << HASH, END >> }

ThreadWishes2 == { << Wish("STR", NameB), END >>, << HASH, END >> }

ThreadWire2 == << Attr(NameB, << 56 >>), Term >>

\* the threads are all there is: the single caller makes no call
ThreadInit ==
    /\ Caller(<< >>, 0, << >>, {})
    /\ NoProxy
    /\ NoKey
    /\ \E l1 \in ThreadWires1, w1 \in ThreadWishes1, w2 \in ThreadWishes2 :
          threads = << ThreadStart(l1, [flags |-> {}, ap |-> w1]),
                       ThreadStart(ThreadWire2, [flags |-> {}, ap |-> w2]) >>

ThreadSpec == ThreadInit /\ [][ThreadNext]_vars

(***************************************************************************)
(* smtpd_proxy_cmd (smtpd/smtpd_proxy.c): send a command to the proxy and  *)
(* receive its reply.                                                      *)
(*                                                                         *)
(* Texts are sequences of ASCII codes.  state.proxy is the stream:         *)
(*   in       the bytes the proxy still sends, its lines ending in CR LF   *)
(*   ending   what a read finds after them: "eof" or "timeout"             *)
(*   writable whether a write of a command succeeds                        *)
(*   flags    the stream's error flags, of "timeout", "error", "eof"       *)
(*   out      the commands sent                                            *)
(* A failing read or write leaves with vstream_longjmp to the              *)
(* vstream_setjmp at the top of the function.                              *)
(***************************************************************************)
\* the values of the expect argument (smtpd_proxy.h): '\0', '0', '2', '3'
SMTPD_PROX_WANT_NONE == 0
SMTPD_PROX_WANT_ANY == 48
SMTPD_PROX_WANT_OK == 50
SMTPD_PROX_WANT_MORE == 51

\* the null format of the connection request
SMTPD_PROXY_CONNECT == << 0 >>

\* the stream errors of smtp_stream.h
SMTP_ERR_EOF == 1
SMTP_ERR_TIME == 2

Minus == 45
Space == 32

\* "451 Error: queue file write error"
Error451 ==
    << 52, 53, 49, 32, 69, 114, 114, 111, 114, 58, 32,
       113, 117, 101, 117, 101, 32, 102, 105, 108, 101, 32, 119, 114, 105, 116, 101, 32, 101, 114, 114, 111, 114 >>

\* printable(text, '?'): every byte that is not printable ASCII becomes '?'
printable(text) ==
    [i \in 1..Len(text) |-> IF text[i] >= 32 /\ text[i] <= 126
                            THEN text[i] ELSE 63]

\* the calls and the stream as one record, for the step operators
ProxyCur == [state |-> state, buffer |-> buffer, cmd |-> proxy_cmd]

ProxyBecomes(w) ==
    /\ state' = w.state
    /\ buffer' = w.buffer
    /\ proxy_cmd' = w.cmd

\* return (x) from smtpd_proxy_cmd
ProxyReturn(w, x) == [w EXCEPT !.cmd.pc = "done", !.cmd.ret = x]

\* the error branch at the top of smtpd_proxy_cmd
ProxyError(w) ==
    ProxyReturn([w EXCEPT !.state.error_mask = @ \cup {"MAIL_ERROR_SOFTWARE"},
                          !.state.err = @ \cup {"CLEANUP_STAT_PROXY"},
                          !.state.proxy_buffer = Error451,
                          !.cmd.jumped = w.cmd.pc # "idle"],
                -1)

\* smtpd_proxy_rdwr_error(stream, err): the error it reports, by a return
\* of err or by msg_panic
smtpd_proxy_rdwr_error(e) ==
    IF e = SMTP_ERR_EOF \/ e = SMTP_ERR_TIME THEN "return" ELSE "panic"

\* vstream_longjmp(stream, val): the flag of the failure is on the stream,
\* and at the vstream_setjmp err becomes the value of (setjmp != 0), 1
ProxyLongjmp(w, flag) ==
    LET j == [w EXCEPT !.state.proxy.flags = @ \cup {flag}]
        e == 1
    IN  IF smtpd_proxy_rdwr_error(e) = "return" THEN ProxyError(j)
        ELSE [j EXCEPT !.cmd.pc = "panic"]

\* smtpd_proxy_cmd from its entry to the first smtp_get; c is the call,
\* [expect, fmt], where fmt stands for the formatted command
smtpd_proxy_cmd(w, c) ==
    LET n == [w EXCEPT !.cmd = [pc |-> "idle", expect |-> c.expect,
                                fmt |-> c.fmt, ret |-> 0, reply |-> << >>,
                                healthy |-> w.state.proxy.flags = {},
                                jumped |-> FALSE]]
        sent == [n EXCEPT !.state.proxy_buffer = c.fmt,
                          !.state.proxy.out = Append(@, c.fmt)]
        s == IF c.fmt # SMTPD_PROXY_CONNECT THEN sent ELSE n
    IN  IF w.state.proxy.flags # {} THEN ProxyError(n)
        ELSE IF c.fmt # SMTPD_PROXY_CONNECT /\ ~w.state.proxy.writable
             THEN ProxyLongjmp([n EXCEPT !.state.proxy_buffer = c.fmt,
                                         !.cmd.pc = "put"], "eof")
        ELSE IF c.expect = SMTPD_PROX_WANT_NONE THEN ProxyReturn(s, 0)
        ELSE [s EXCEPT !.state.proxy_buffer = << >>, !.cmd.pc = "get"]

\* the number of digits a text begins with
RECURSIVE leading_digits(_)
leading_digits(text) ==
    IF Len(text) > 0 /\ isdigit(text[1]) THEN 1 + leading_digits(Tail(text))
    ELSE 0

\* the end of smtpd_proxy_cmd: the reply against the expectation
ProxyCheck(w) ==
    LET first == IF Len(STR(w.state.proxy_buffer)) > 0
                 THEN w.state.proxy_buffer[1] ELSE 0
    IN  IF w.cmd.expect # SMTPD_PROX_WANT_ANY /\ w.cmd.expect # first
        THEN ProxyReturn(w, -1)
        ELSE ProxyReturn(w, 0)

\* var_line_limit (line_length_limit) in the smtpd process
var_line_limit_smtpd == 13

CarriageReturn == 13

\* vstring_get_bound(vp, fp, bound): the bytes read, up to and including
\* the first newline, at most bound of them
RECURSIVE vstring_get_bound(_, _)
vstring_get_bound(bytes, bound) ==
    IF bound = 0 \/ Len(bytes) = 0 THEN << >>
    ELSE IF bytes[1] = Newline THEN << Newline >>
    ELSE << bytes[1] >> \o vstring_get_bound(Tail(bytes), bound - 1)

\* smtp_get(vp, stream, bound): the text stored, without the line end when
\* the read went up to it, the last byte read, what stays in the stream,
\* and whether the read met the end of the stream
smtp_get(bytes, bound) ==
    LET got == vstring_get_bound(bytes, bound)
        n == Len(got)
        last_char == IF n = 0 THEN VSTREAM_EOF ELSE got[n]
        body == SubSeq(got, 1, n - 1)
        m == Len(body)
    IN  [text |-> IF last_char # Newline THEN got
                  ELSE IF m > 0 /\ body[m] = CarriageReturn
                       THEN SubSeq(body, 1, m - 1)
                  ELSE body,
         last_char |-> last_char,
         rest |-> SubSeq(bytes, n + 1, Len(bytes)),
         eof |-> n < bound /\ last_char # Newline]

\* the bytes of the lines ls on the connection
RECURSIVE smtp_wire(_)
smtp_wire(ls) ==
    IF ls = << >> THEN << >>
    ELSE Head(ls) \o << CarriageReturn, Newline >> \o smtp_wire(Tail(ls))

\* ProxyLine with a loop that a line without a reply code also leaves
ProxyLine_garbage_ends(w) ==
    LET got == smtp_get(w.state.proxy.in, var_line_limit_smtpd)
        line == printable(STR(got.text))
        pb == w.state.proxy_buffer
        kept == IF Len(pb) < var_line_limit_smtpd
                THEN (IF Len(pb) > 0 THEN Append(pb, Newline) ELSE pb) \o line
                ELSE pb
        n == [w EXCEPT !.state.proxy.in = got.rest,
                       !.buffer = line,
                       !.state.proxy_buffer = kept,
                       !.cmd.reply = Append(@, line)]
        cp == leading_digits(line)
    IN  IF cp = 3 /\ Len(line) > 3 /\ line[4] = Minus THEN n
        ELSE ProxyCheck(n)

\* ProxyLine that stores every line, whatever is stored already
ProxyLine_stores_all(w) ==
    LET got == smtp_get(w.state.proxy.in, var_line_limit_smtpd)
        line == printable(STR(got.text))
        pb == w.state.proxy_buffer
        kept == (IF Len(pb) > 0 THEN Append(pb, Newline) ELSE pb) \o line
        n == [w EXCEPT !.state.proxy.in = got.rest,
                       !.buffer = line,
                       !.state.proxy_buffer = kept,
                       !.cmd.reply = Append(@, line)]
        cp == leading_digits(line)
    IN  IF cp = 3 /\ Len(line) > 3 /\ line[4] = Minus THEN n
        ELSE IF cp = 3 /\ (Len(line) = 3 \/ line[4] = Space)
             THEN ProxyCheck(n)
        ELSE n

\* one pass through the loop of smtpd_proxy_cmd once smtp_get has stored
\* a line, and the end of the function when the loop breaks
ProxyLine(w) ==
    LET got == smtp_get(w.state.proxy.in, var_line_limit_smtpd)
        line == printable(STR(got.text))
        pb == w.state.proxy_buffer
        kept == IF Len(pb) < var_line_limit_smtpd
                THEN (IF Len(pb) > 0 THEN Append(pb, Newline) ELSE pb) \o line
                ELSE pb
        n == [w EXCEPT !.state.proxy.in = got.rest,
                       !.buffer = line,
                       !.state.proxy_buffer = kept,
                       !.cmd.reply = Append(@, line)]
        cp == leading_digits(line)
    IN  IF cp = 3 /\ Len(line) > 3 /\ line[4] = Minus THEN n
        ELSE IF cp = 3 /\ (Len(line) = 3 \/ line[4] = Space)
             THEN ProxyCheck(n)
        ELSE n

(***************************************************************************)
(* Actions of the proxy client.                                            *)
(***************************************************************************)
ProxyCall ==
    /\ proxy_cmd.pc \in {"idle", "done"}
    /\ proxy_cmds # << >>
    /\ proxy_cmds' = Tail(proxy_cmds)
    /\ ProxyBecomes(smtpd_proxy_cmd(ProxyCur, Head(proxy_cmds)))
    /\ UNCHANGED << caller_vars, name_buf, str_buf, base64_buf, threads,
                    proxy_open, key_call >>

\* smtp_get returns with a line
ProxyGetLine ==
    /\ proxy_cmd.pc = "get"
    /\ ~smtp_get(state.proxy.in, var_line_limit_smtpd).eof
    /\ ProxyBecomes(ProxyLine(ProxyCur))
    /\ UNCHANGED << caller_vars, name_buf, str_buf, base64_buf, threads,
                    proxy_cmds, proxy_open, key_call >>

\* smtp_get meets the end of the stream or the time limit
ProxyGetFails ==
    /\ proxy_cmd.pc = "get"
    /\ smtp_get(state.proxy.in, var_line_limit_smtpd).eof
    /\ ProxyBecomes(ProxyLongjmp(ProxyCur, state.proxy.ending))
    /\ UNCHANGED << caller_vars, name_buf, str_buf, base64_buf, threads,
                    proxy_cmds, proxy_open, key_call >>

ProxyNext == ProxyCall \/ ProxyGetLine \/ ProxyGetFails

(***************************************************************************)
(* Inputs of the proxy client: the lines of the proxy and the calls.       *)
(***************************************************************************)
\* lines in a reply of the proxy
MaxReply == 3

\* a line longer than the limit: var_line_limit_smtpd times "x", then "250 "
LongLine ==
    [i \in 1..var_line_limit_smtpd |-> 120] \o << 50, 53, 48, 32 >>

\* "250-", "250 ", "250", "550-", "550 ", "354 ", "2x", the empty line and
\* the long line
ReplyLines ==
    { << 50, 53, 48, 45 >>, << 50, 53, 48, 32 >>, << 50, 53, 48 >>,
      << 53, 53, 48, 45 >>, << 53, 53, 48, 32 >>, << 51, 53, 52, 32 >>,
      << 50, 120 >>, << >>, LongLine }

\* "DATA"
Command == << 68, 65, 84, 65 >>

ProxyCalls ==
    { [expect |-> e, fmt |-> f] :
        e \in { SMTPD_PROX_WANT_NONE, SMTPD_PROX_WANT_ANY, SMTPD_PROX_WANT_OK,
                SMTPD_PROX_WANT_MORE },
        f \in { SMTPD_PROXY_CONNECT, Command } }

\* the proxy stream with the lines ls still to come
ProxyStart(ls, ending, writable, fl, cs) ==
    /\ state = [proxy |-> [open |-> TRUE, in |-> smtp_wire(ls),
                           ending |-> ending,
                           writable |-> writable, flags |-> fl, out |-> << >>],
                proxy_buffer |-> << >>, error_mask |-> {}, err |-> {}]
    /\ buffer = << >>
    /\ proxy_cmd = [pc |-> "idle"]
    /\ proxy_cmds = cs
    /\ proxy_open = [pc |-> "none"]

\* one call on a stream without error flags, with every reply
ProxyInitReply ==
    \E ls \in SeqsUpTo(ReplyLines, MaxReply), e \in {"eof", "timeout"},
       c \in ProxyCalls :
        ProxyStart(ls, e, TRUE, {}, << c >>)

\* one call on a stream with an error flag or one that cannot be written
ProxyInitBroken ==
    \E fl \in SUBSET {"timeout", "error", "eof"}, wr \in BOOLEAN,
       c \in ProxyCalls :
        ProxyStart(<< << 50, 53, 48, 32 >> >>, "eof", wr, fl, << c >>)

\* two calls, the second one after whatever the first one left
ProxyInitTwo ==
    \E ls \in SeqsUpTo(ReplyLines, MaxReply), e \in {"eof", "timeout"},
       c1 \in ProxyCalls, x2 \in {SMTPD_PROX_WANT_OK, SMTPD_PROX_WANT_ANY} :
        ProxyStart(ls, e, TRUE, {},
                   << c1, [expect |-> x2, fmt |-> Command] >>)

ProxyInit ==
    /\ Caller(<< >>, 0, << >>, {})
    /\ threads = << >>
    /\ NoKey
    /\ ProxyInitReply \/ ProxyInitBroken \/ ProxyInitTwo

ProxySpec == ProxyInit /\ [][ProxyNext]_vars

(***************************************************************************)
(* smtpd_proxy_open (smtpd/smtpd_proxy.c): connect to the proxy service,   *)
(* receive its greeting, send EHLO, the XCLIENT commands when the proxy    *)
(* supports them, and MAIL FROM.  Every command is a call of               *)
(* smtpd_proxy_cmd, whose reads are the actions ProxyGetLine and           *)
(* ProxyGetFails.  proxy_open is                                           *)
(*   service  the proxy service: whether inet_connect succeeds (up), the   *)
(*            lines it sends, how its stream ends and whether it can be    *)
(*            written                                                      *)
(*   pc       "idle", the command that is running ("greeting", "ehlo",     *)
(*            "xclient1", "xclient2", "mail") or "done"                    *)
(*   ret      the result                                                   *)
(*   steps    the commands completed, each with the result and the reply   *)
(*            lines that smtpd_proxy_cmd read (history)                    *)
(***************************************************************************)
\* "XCLIENT" (XCLIENT_CMD of mail_proto.h)
XCLIENT_CMD == << 88, 67, 76, 73, 69, 78, 84 >>

\* the formatted commands: "EHLO", the two XCLIENT commands (with the
\* forwarded name and address, and with the forwarded helo name and
\* protocol) and the MAIL FROM command
EhloCommand == << 69, 72, 76, 79 >>
XclientNameAddr == XCLIENT_CMD \o << 32, 78 >>
XclientHeloProto == XCLIENT_CMD \o << 32, 72 >>
MailFrom == << 77, 65, 73, 76 >>

\* mystrtok(&lines, "\n") until it returns null: the non-empty pieces of
\* text between newlines
RECURSIVE mystrtok_all(_, _)
mystrtok_all(text, piece) ==
    IF Len(text) = 0 THEN (IF Len(piece) > 0 THEN << piece >> ELSE << >>)
    ELSE IF text[1] = Newline
         THEN (IF Len(piece) > 0 THEN << piece >> ELSE << >>)
              \o mystrtok_all(Tail(text), << >>)
    ELSE mystrtok_all(Tail(text), Append(piece, text[1]))

\* the test of a line of the EHLO reply for the XCLIENT feature
xclient_line(line) ==
    /\ Len(line) >= 4
    /\ isdigit(line[1]) /\ isdigit(line[2]) /\ isdigit(line[3])
    /\ line[4] = Space \/ line[4] = Minus
    /\ strcmp(SubSeq(line, 5, Len(line)), XCLIENT_CMD) = 0

\* SMTPD_FEATURE_XCLIENT in proxy_features after the parse of the EHLO reply
proxy_features(text) ==
    LET ls == mystrtok_all(STR(text), << >>)
    IN  \E i \in 1..Len(ls) : xclient_line(ls[i])

\* smtpd_proxy_open and its calls as one record, for the step operators
OpenCur ==
    [state |-> state, buffer |-> buffer, cmd |-> proxy_cmd,
     open |-> proxy_open]

OpenBecomes(o) ==
    /\ ProxyBecomes(o)
    /\ proxy_open' = o.open

\* smtpd_proxy_close
smtpd_proxy_close(o) == [o EXCEPT !.state.proxy = [open |-> FALSE]]

\* return (x) from smtpd_proxy_open
OpenReturn(o, x) == [o EXCEPT !.open.pc = "done", !.open.ret = x]

\* the failure of a command before MAIL FROM: the reply is replaced
OpenFail(o) ==
    OpenReturn(smtpd_proxy_close(
                   [o EXCEPT !.state.proxy_buffer = Error451]), -1)

\* the command that has returned goes into the history
OpenNote(o) ==
    [o EXCEPT !.open.steps =
        Append(@, [step |-> o.open.pc, ret |-> o.cmd.ret,
                   reply |-> o.cmd.reply])]

\* the call smtpd_proxy_cmd(state, expect, fmt) of the step named step
OpenCmd(o, step, expect, fmt) ==
    [smtpd_proxy_cmd(o, [expect |-> expect, fmt |-> fmt])
        EXCEPT !.open.pc = step]

\* smtpd_proxy_open from its entry into the call that receives the greeting
smtpd_proxy_open(o) ==
    LET v == o.open.service
        n == [o EXCEPT !.state.proxy =
                 [open |-> TRUE, in |-> smtp_wire(v.in),
                  ending |-> v.ending,
                  writable |-> v.writable, flags |-> {}, out |-> << >>]]
    IN  IF ~v.up
        THEN OpenReturn(
                 [o EXCEPT !.state.error_mask = @ \cup {"MAIL_ERROR_SOFTWARE"},
                           !.state.err = @ \cup {"CLEANUP_STAT_PROXY"},
                           !.state.proxy_buffer = Error451], -1)
        ELSE OpenCmd(n, "greeting", SMTPD_PROX_WANT_OK, SMTPD_PROXY_CONNECT)

\* after the greeting: EHLO
OpenGreeted(o) ==
    IF o.cmd.ret # 0 THEN OpenFail(o)
    ELSE OpenCmd(o, "ehlo", SMTPD_PROX_WANT_OK, EhloCommand)

\* after EHLO: the parse of its reply, then the first XCLIENT command or
\* MAIL FROM
OpenEhloDone(o) ==
    LET f == proxy_features(o.state.proxy_buffer)
        n == [o EXCEPT !.state.proxy_features = f]
    IN  IF o.cmd.ret # 0 THEN OpenFail(o)
        ELSE IF f
             THEN OpenCmd(n, "xclient1", SMTPD_PROX_WANT_ANY, XclientNameAddr)
        ELSE OpenCmd(n, "mail", SMTPD_PROX_WANT_OK, MailFrom)

\* after the first XCLIENT command: the second one
OpenXclient1Done(o) ==
    IF o.cmd.ret = 0
    THEN OpenCmd(o, "xclient2", SMTPD_PROX_WANT_ANY, XclientHeloProto)
    ELSE OpenFail(o)

\* after the second XCLIENT command: MAIL FROM
OpenXclient2Done(o) ==
    IF o.cmd.ret # 0 THEN OpenFail(o)
    ELSE OpenCmd(o, "mail", SMTPD_PROX_WANT_OK, MailFrom)

\* after MAIL FROM: the reply of the proxy is kept
OpenMailDone(o) ==
    IF o.cmd.ret # 0 THEN OpenReturn(smtpd_proxy_close(o), -1)
    ELSE OpenReturn(o, 0)

(***************************************************************************)
(* Actions of smtpd_proxy_open.                                            *)
(***************************************************************************)
OpenUnchanged ==
    UNCHANGED << caller_vars, name_buf, str_buf, base64_buf, threads,
                 proxy_cmds, key_call >>

OpenCall ==
    /\ proxy_open.pc = "idle"
    /\ OpenBecomes(smtpd_proxy_open(OpenCur))
    /\ OpenUnchanged

OpenAfterGreeting ==
    /\ proxy_open.pc = "greeting"
    /\ proxy_cmd.pc = "done"
    /\ OpenBecomes(OpenGreeted(OpenNote(OpenCur)))
    /\ OpenUnchanged

OpenAfterEhlo ==
    /\ proxy_open.pc = "ehlo"
    /\ proxy_cmd.pc = "done"
    /\ OpenBecomes(OpenEhloDone(OpenNote(OpenCur)))
    /\ OpenUnchanged

OpenAfterXclient1 ==
    /\ proxy_open.pc = "xclient1"
    /\ proxy_cmd.pc = "done"
    /\ OpenBecomes(OpenXclient1Done(OpenNote(OpenCur)))
    /\ OpenUnchanged

OpenAfterXclient2 ==
    /\ proxy_open.pc = "xclient2"
    /\ proxy_cmd.pc = "done"
    /\ OpenBecomes(OpenXclient2Done(OpenNote(OpenCur)))
    /\ OpenUnchanged

OpenAfterMail ==
    /\ proxy_open.pc = "mail"
    /\ proxy_cmd.pc = "done"
    /\ OpenBecomes(OpenMailDone(OpenNote(OpenCur)))
    /\ OpenUnchanged

OpenNext ==
    \/ OpenCall
    \/ ProxyGetLine
    \/ ProxyGetFails
    \/ OpenAfterGreeting
    \/ OpenAfterEhlo
    \/ OpenAfterXclient1
    \/ OpenAfterXclient2
    \/ OpenAfterMail

(***************************************************************************)
(* Inputs of smtpd_proxy_open: the proxy service.                          *)
(***************************************************************************)
\* lines the proxy sends in a session
MaxSession == 5

\* "250 ", "550 ", "250 XCLIENT", "250-XCLIENT" and "2x"
SessionLines ==
    { << 50, 53, 48, 32 >>, << 53, 53, 48, 32 >>,
      << 50, 53, 48, 32 >> \o XCLIENT_CMD, << 50, 53, 48, 45 >> \o XCLIENT_CMD,
      << 50, 120 >> }

OpenStart(v) ==
    /\ state = [proxy |-> [open |-> FALSE], proxy_buffer |-> << >>,
                error_mask |-> {}, err |-> {}, proxy_features |-> FALSE]
    /\ buffer = << >>
    /\ proxy_cmd = [pc |-> "idle"]
    /\ proxy_cmds = << >>
    /\ proxy_open = [service |-> v, pc |-> "idle", ret |-> 0, steps |-> << >>]

\* a proxy service that accepts the connection and its commands
OpenInitUp ==
    \E ls \in SeqsUpTo(SessionLines, MaxSession), e \in {"eof", "timeout"} :
        OpenStart([up |-> TRUE, in |-> ls, ending |-> e, writable |-> TRUE])

\* a proxy service that is down, or that takes no command
OpenInitDown ==
    \E u \in BOOLEAN, ls \in SeqsUpTo({ << 50, 53, 48, 32 >> }, 1) :
        OpenStart([up |-> u, in |-> ls, ending |-> "eof", writable |-> FALSE])

OpenInit ==
    /\ Caller(<< >>, 0, << >>, {})
    /\ threads = << >>
    /\ NoKey
    /\ OpenInitUp \/ OpenInitDown

OpenSpec == OpenInit /\ [][OpenNext]_vars

(***************************************************************************)
(* smtp_key_prefix (smtp/smtp_key.c): the prefix of a lookup key, built    *)
(* from the context that the flags select.                                 *)
(*                                                                         *)
(* A char pointer is [null, text]; a VSTRING is its text.  delim_na is a   *)
(* C string of one or two characters: the field delimiter and the          *)
(* optional place holder.  The flags are a set of flag names.              *)
(***************************************************************************)
Null == [null |-> TRUE, text |-> << >>]
Str(t) == [null |-> FALSE, text |-> t]

\* SMTP_KEY_MASK_ALL (smtp.h)
SMTP_KEY_MASK_ALL ==
    {"SERVICE", "SENDER", "REQ_NEXTHOP", "NEXTHOP", "HOSTNAME", "ADDR",
     "PORT", "SASL", "NOSASL"}

\* "%u": the decimal digits of an unsigned number
RECURSIVE sprintf_u(_)
sprintf_u(n) ==
    IF n < 10 THEN << 48 + n >> ELSE sprintf_u(n \div 10) \o << 48 + (n % 10) >>

\* ntohs on a host that stores the low byte first
ntohs(x) == (x % 256) * 256 + x \div 256

\* str[strcspn(str, delim_na)] != 0: str holds a character of delim_na
has_delim_na(text, delim_na) ==
    \E i \in 1..Len(text) : \E j \in 1..Len(delim_na) : text[i] = delim_na[j]

smtp_key_append_na(buf, delim_na) ==
    (IF Len(delim_na) > 1 THEN Append(buf, delim_na[2]) ELSE buf)
        \o << delim_na[1] >>

smtp_key_append_base64(buf, str, delim_na) ==
    IF str.null \/ Len(STR(str.text)) = 0
    THEN smtp_key_append_na(buf, delim_na)
    ELSE buf \o base64_encode(STR(str.text)) \o << delim_na[1] >>

smtp_key_append_str(buf, str, delim_na) ==
    IF str.null \/ Len(STR(str.text)) = 0
    THEN smtp_key_append_na(buf, delim_na)
    ELSE IF has_delim_na(STR(str.text), delim_na)
         THEN buf \o base64_encode(STR(str.text)) \o << delim_na[1] >>
    ELSE buf \o STR(str.text) \o << delim_na[1] >>

smtp_key_append_uint(buf, num, delim_na) ==
    buf \o sprintf_u(num) \o << delim_na[1] >>

\* smtp_key_prefix(buffer, delim_na, iter, flags) under the configuration
\* and build cfg; the result is [pc, buffer], pc being "done" or "panic"
smtp_key_prefix(delim_na, iter, context_flags, cfg) ==
    LET st == iter.parent
        b0 == << >>
        b1 == IF "SERVICE" \in context_flags
              THEN smtp_key_append_str(b0, st.service, delim_na) ELSE b0
        b2 == IF cfg.USE_SASL_AUTH /\ "SENDER" \in context_flags
              THEN IF cfg.var_smtp_sender_auth
                      /\ Len(cfg.var_smtp_sasl_passwd) > 0
                   THEN smtp_key_append_str(b1, st.request.sender, delim_na)
                   ELSE smtp_key_append_na(b1, delim_na)
              ELSE b1
        b3 == IF "REQ_NEXTHOP" \in context_flags
              THEN smtp_key_append_str(b2, Str(iter.request_nexthop), delim_na)
              ELSE b2
        b4 == IF "NEXTHOP" \in context_flags
              THEN smtp_key_append_str(b3, Str(iter.dest), delim_na) ELSE b3
        b5 == IF "HOSTNAME" \in context_flags
              THEN smtp_key_append_str(b4, Str(iter.host), delim_na) ELSE b4
        b6 == IF "ADDR" \in context_flags
              THEN smtp_key_append_str(b5, Str(iter.addr), delim_na) ELSE b5
        b7 == IF "PORT" \in context_flags
              THEN smtp_key_append_uint(b6, ntohs(iter.port), delim_na)
              ELSE b6
        b8 == IF cfg.USE_SASL_AUTH /\ "NOSASL" \in context_flags
              THEN smtp_key_append_na(smtp_key_append_na(b7, delim_na),
                                      delim_na)
              ELSE b7
        b9 == IF cfg.USE_SASL_AUTH /\ "SASL" \in context_flags
              THEN IF st.session.null \/ st.session.sasl_username.null
                   THEN smtp_key_append_na(smtp_key_append_na(b8, delim_na),
                                           delim_na)
                   ELSE smtp_key_append_base64(
                            smtp_key_append_base64(
                                b8, st.session.sasl_username, delim_na),
                            st.session.sasl_passwd, delim_na)
              ELSE b8
    IN  IF st.null THEN [pc |-> "panic", buffer |-> << >>]
        ELSE IF context_flags \ SMTP_KEY_MASK_ALL # {}
             THEN [pc |-> "panic", buffer |-> << >>]
        ELSE IF context_flags = {} THEN [pc |-> "panic", buffer |-> << >>]
        ELSE [pc |-> "done", buffer |-> b9]

(***************************************************************************)
(* The call of smtp_key_prefix.                                            *)
(***************************************************************************)
KeyPrefix ==
    /\ key_call.pc = "idle"
    /\ LET r == smtp_key_prefix(key_call.delim_na, key_call.iter,
                                key_call.flags, key_call.cfg)
       IN  key_call' =
               [key_call EXCEPT
                   !.pc = r.pc,
                   !.buffer = IF r.pc = "done" THEN r.buffer ELSE @]
    /\ UNCHANGED << caller_vars, name_buf, str_buf, base64_buf, threads,
                    proxy_vars >>

KeyNext == KeyPrefix

(***************************************************************************)
(* Inputs of smtp_key_prefix.                                              *)
(***************************************************************************)
\* a field with a delimiter in it, "a:b", and the text of its encoding
WithDelim == << 97, Colon, 98 >>
Encoded == base64_encode(WithDelim)

\* senders: none, "", "a", "a:b", the encoding of "a:b" and "*"
KeySenders ==
    { Null, Str(<< >>), Str(<< 97 >>), Str(WithDelim), Str(Encoded),
      Str(<< 42 >>) }

\* host names: "a", "a:b" and the encoding of "a:b"
KeyHosts == { << 97 >>, WithDelim, Encoded }

\* ":" and ":*"
KeyDelims == { << Colon >>, << Colon, 42 >> }

\* ports 25 and 587 in network byte order
KeyPorts == { 6400, 19202 }

\* no session, a session without SASL login, and a session with one
KeySessions ==
    { Null,
      [null |-> FALSE, sasl_username |-> Null, sasl_passwd |-> Null],
      [null |-> FALSE, sasl_username |-> Str(<< 117 >>),
       sasl_passwd |-> Str(<< 112 >>)] }

\* builds with and without SASL; sender-dependent authentication on, off,
\* and on without a password table
KeyConfigs ==
    { [USE_SASL_AUTH |-> TRUE, var_smtp_sender_auth |-> TRUE,
       var_smtp_sasl_passwd |-> << 116 >>],
      [USE_SASL_AUTH |-> TRUE, var_smtp_sender_auth |-> FALSE,
       var_smtp_sasl_passwd |-> << 116 >>],
      [USE_SASL_AUTH |-> TRUE, var_smtp_sender_auth |-> TRUE,
       var_smtp_sasl_passwd |-> << >>],
      [USE_SASL_AUTH |-> FALSE, var_smtp_sender_auth |-> FALSE,
       var_smtp_sasl_passwd |-> << >>] }

KeyFlagSets ==
    (SUBSET {"SERVICE", "SENDER", "HOSTNAME", "SASL"})
    \cup { SMTP_KEY_MASK_ALL, {"PORT"}, {"SENDER", "PORT"}, {"NOSASL"},
           {"REQ_NEXTHOP", "NEXTHOP", "ADDR", "PORT"},
           {"SENDER", "UNKNOWN"} }

\* the iterator of a request of the service "s" with the sender snd, for
\* the host h at port p, in the session ssn
Iterator(snd, h, p, ssn) ==
    [parent |-> [null |-> FALSE, service |-> Str(<< 115 >>),
                 request |-> [sender |-> snd], session |-> ssn],
     request_nexthop |-> << 110 >>, dest |-> << 110 >>,
     host |-> h, addr |-> << 49 >>, port |-> p]

\* the iterators of the requests
KeyIterators ==
    { Iterator(snd, h, p, ssn) :
          snd \in KeySenders, h \in KeyHosts, p \in KeyPorts,
          ssn \in KeySessions }

KeyInputs ==
    { [delim_na |-> d, iter |-> it, flags |-> f, cfg |-> c] :
          d \in KeyDelims, it \in KeyIterators, f \in KeyFlagSets,
          c \in KeyConfigs }

\* an iterator without a parent state
Orphan ==
    [parent |-> Null, request_nexthop |-> << >>, dest |-> << >>,
     host |-> << >>, addr |-> << >>, port |-> 0]

KeyStart(i, old) ==
    key_call = [delim_na |-> i.delim_na, iter |-> i.iter, flags |-> i.flags,
                cfg |-> i.cfg, buffer |-> old, pc |-> "idle"]

\* the buffer is empty or holds an older key
KeyInit ==
    /\ Caller(<< >>, 0, << >>, {})
    /\ threads = << >>
    /\ NoProxy
    /\ \/ \E i \in KeyInputs : KeyStart(i, << >>)
       \/ \E d \in KeyDelims, c \in KeyConfigs :
             KeyStart([delim_na |-> d, iter |-> Orphan,
                       flags |-> {"SERVICE"}, cfg |-> c], << 111, Colon >>)

KeySpec == KeyInit /\ [][KeyNext]_vars


(***************************************************************************)
(* Vocabulary of the properties.                                           *)
(***************************************************************************)
Min(S) == CHOOSE x \in S : \A y \in S : x <= y

\* the call that has returned is the first call on the stream
FirstCallDone == pc = "done" /\ prev = << >>

\* the stream holds all bytes of the lines, up to end-of-stream
StreamWhole == Len(stream) = Len(attr_print64(lines))

\* the first attribute list on the wire: the lines before the first
\* terminator line, and the stream position just after that terminator
FirstTerm == Min({ k \in 1..Len(lines) : lines[k].shape = "term" })
FirstList == SubSeq(lines, 1, FirstTerm - 1)
AfterFirstList == Len(attr_print64(SubSeq(lines, 1, FirstTerm)))

WellFormedList(ls) == \A k \in 1..Len(ls) : ls[k].shape = "attr"

\* the wish entries before the END (and before a hash entry)
IsScalar(w) == w.type \in {"NUM", "LONG", "STR"}
ScalarWishes == SelectSeq(ap, IsScalar)
PlainWishList == Len(ap) = Len(ScalarWishes) + 1 /\ ap[Len(ap)] = END
HashWishList ==
    /\ Len(ap) = Len(ScalarWishes) + 2
    /\ ap[Len(ap) - 1] = HASH
    /\ ap[Len(ap)] = END

\* what the scan stored in the destination of wish entry i, as text
DestValue(i) ==
    IF ap[i].type = "STR" THEN dest[i].str ELSE dest[i].num.digits

\* In-order matching: the lines of ls, from line j on, that the wishes ws
\* are matched to when each wish takes the first line of its name after
\* the line of the wish before it.
RECURSIVE InOrderMatch(_, _, _)
InOrderMatch(ws, ls, j) ==
    IF Len(ws) = 0 THEN << >>
    ELSE LET c == { k \in j..Len(ls) : ls[k].name = ws[1].name }
         IN  IF c = {} THEN << >>
             ELSE << Min(c) >> \o InOrderMatch(Tail(ws), ls, Min(c) + 1)

\* a wire value that is a decimal number as attr_print64 writes one: digits
\* only, no leading zero, short enough for an unsigned
IsDecimal(v) ==
    /\ Len(v) > 0
    /\ Len(v) < Len(UINT_MAX_digits)
    /\ \A i \in 1..Len(v) : isdigit(v[i])
    /\ canonical(v) = v

\* every wire value that a number wish can be matched to is such a number
NumbersAreDecimal ==
    \A i \in 1..Len(ScalarWishes), k \in 1..Len(FirstList) :
        (ap[i].type \in {"NUM", "LONG"} /\ FirstList[k].name = ap[i].name)
        => IsDecimal(FirstList[k].value)

(***************************************************************************)
(* C1 (as stated): with ReportExtra unset, when every name of a wish list  *)
(* of distinct names occurs in the wire list, in whatever order (the wire  *)
(* values of number entries being decimal numbers), every wish-list entry  *)
(* is bound to a wire value of its name and the full wish-list length is   *)
(* returned.                                                               *)
(***************************************************************************)
C1_AnyOrder ==
    ( /\ FirstCallDone
      /\ "EXTRA" \notin flags
      /\ PlainWishList
      /\ StreamWhole
      /\ WellFormedList(FirstList)
      /\ NumbersAreDecimal
      /\ \A i, j \in 1..Len(ScalarWishes) : i # j => ap[i].name # ap[j].name
      /\ \A i \in 1..Len(ScalarWishes) :
            \E k \in 1..Len(FirstList) : FirstList[k].name = ap[i].name )
    => /\ ret = Len(ScalarWishes)
       /\ \A i \in 1..Len(ScalarWishes) :
            /\ dest[i].written
            /\ \E k \in 1..Len(FirstList) :
                  /\ FirstList[k].name = ap[i].name
                  /\ FirstList[k].value = DestValue(i)

(***************************************************************************)
(* C1 (amended): with ReportExtra unset, and the wire values of number     *)
(* entries being decimal numbers, the wish entries are bound in            *)
(* wish-list order, each to the first wire attribute of its name that      *)
(* follows the attribute bound to the entry before it, the attributes in   *)
(* between being skipped; the result is the number of entries so bound,    *)
(* the full length exactly when the names occur on the wire in wish-list   *)
(* order.                                                                  *)
(***************************************************************************)
C1_InOrder ==
    ( /\ FirstCallDone
      /\ "EXTRA" \notin flags
      /\ PlainWishList
      /\ StreamWhole
      /\ WellFormedList(FirstList)
      /\ NumbersAreDecimal )
    => LET g == InOrderMatch(ScalarWishes, FirstList, 1)
       IN  /\ ret = Len(g)
           /\ \A i \in 1..Len(ScalarWishes) :
                IF i <= Len(g)
                THEN /\ dest[i].written
                     /\ DestValue(i) = FirstList[g[i]].value
                ELSE ~dest[i].written

\* two wishes bound in order although an unrequested attribute stands
\* before the second one
C1_Witness ==
    /\ FirstCallDone
    /\ "EXTRA" \notin flags
    /\ PlainWishList
    /\ StreamWhole
    /\ WellFormedList(FirstList)
    /\ Len(ScalarWishes) = 2
    /\ ret = 2
    /\ LET g == InOrderMatch(ScalarWishes, FirstList, 1)
       IN  /\ Len(g) = 2
           /\ g[2] > g[1] + 1
           /\ FirstList[g[1] + 1].name = NameX


(***************************************************************************)
(* C2: round trip.  When the wish list names the names of a well-formed    *)
(* wire list in the wire's order, each as a string (or as a number whose   *)
(* wire value is a decimal number), a scan without Continue returns the    *)
(* length of the list and leaves in the i-th destination exactly the i-th  *)
(* wire value, also when names or values hold ':' or newline bytes.        *)
(***************************************************************************)
C2_RoundTrip ==
    ( /\ FirstCallDone
      /\ "MORE" \notin flags
      /\ PlainWishList
      /\ StreamWhole
      /\ WellFormedList(FirstList)
      /\ Len(ScalarWishes) = Len(FirstList)
      /\ \A i \in 1..Len(FirstList) :
            /\ ap[i].name = FirstList[i].name
            /\ ap[i].type = "STR" \/ IsDecimal(FirstList[i].value) )
    => /\ ret = Len(FirstList)
       /\ \A i \in 1..Len(FirstList) :
            /\ dest[i].written
            /\ DestValue(i) = FirstList[i].value

\* a round trip of two attributes, the first with a name of ':' or newline
\* bytes, the second with an empty name, one value with a newline byte
C2_Witness ==
    /\ FirstCallDone
    /\ flags = {"MISSING", "EXTRA"}
    /\ PlainWishList
    /\ StreamWhole
    /\ Len(FirstList) = 2
    /\ ret = 2
    /\ \A i \in 1..2 : ap[i].type = "STR" /\ ap[i].name = FirstList[i].name
    /\ \E j \in 1..Len(ap[1].name) : ap[1].name[j] \in {Colon, Newline}
    /\ ap[2].name = << >>
    /\ \E j \in 1..Len(dest[1].str) : dest[1].str[j] = Newline
    /\ dest[2].str = FirstList[2].value

(***************************************************************************)
(* C3 (as stated): for a wish list ending in a hash entry, a non-negative  *)
(* result is the number of earlier wish entries bound plus the number of   *)
(* entries the scan stored into the table.                                 *)
(***************************************************************************)
C3_HashCount ==
    (pc = "done" /\ HashWishList /\ ret >= 0)
    => ret = Cardinality({ i \in 1..Len(ScalarWishes) : dest[i].written })
               + Cardinality(hash_table \ table0)

(***************************************************************************)
(* C4: with ReportExtra set, when the scan is about to read a wire         *)
(* attribute whose name differs from the name of the pending wish, or the  *)
(* pending wish is END, the scan returns the count so far, which is not    *)
(* -1, right after that name, and stores nothing more.                     *)
(***************************************************************************)
LineStart(k) == Len(attr_print64(SubSeq(lines, 1, k - 1)))

\* the lines that begin where the stream cursor is
LinesAtPos == { k \in 1..Len(lines) : LineStart(k) = pos }

\* the name field of line k: its length on the wire with its delimiter,
\* and whether the stream holds all of it
NameField(k) == Len(base64_encode(lines[k].name)) + 1
NameReadable(k) ==
    /\ lines[k].shape \in {"attr", "noval", "multi", "badvalue"}
    /\ LineStart(k) + NameField(k) <= Len(stream)

C4_ExtraStops ==
    [][ \A k \in LinesAtPos :
          ( /\ pc = "locate"
            /\ "EXTRA" \in flags
            /\ wanted_type # "HASH"
            /\ NameReadable(k)
            /\ wanted_type = "END" \/ lines[k].name # wanted_name )
          => /\ pc' = "done"
             /\ ret' = conversions
             /\ ret' >= 0
             /\ pos' = pos + NameField(k)
             /\ dest' = dest
             /\ hash_table' = hash_table ]_vars

\* wish [A], wire [B, A]: the scan has returned 0 after the name of B
C4_Witness ==
    /\ FirstCallDone
    /\ "EXTRA" \in flags
    /\ Len(ScalarWishes) >= 1
    /\ Len(FirstList) >= 2
    /\ FirstList[1].name # ap[1].name
    /\ FirstList[2].name = ap[1].name
    /\ ret = 0
    /\ ~dest[1].written
    /\ pos = NameField(1)


(***************************************************************************)
(* C5 (as stated): without Continue, a scan of a well-formed list that     *)
(* returns a count with END pending has consumed the list up to and        *)
(* including its terminator.                                               *)
(***************************************************************************)
C5_ListConsumed ==
    ( /\ FirstCallDone
      /\ "MORE" \notin flags
      /\ ret >= 0
      /\ wanted_type = "END"
      /\ WellFormedList(FirstList) )
    => pos = AfterFirstList

(***************************************************************************)
(* C5 (amended): without Continue and with ReportExtra unset, a scan of a  *)
(* well-formed list that returns a count with END pending has consumed the *)
(* list up to and including its terminator, and the first name the         *)
(* following call reads is the first name of the next list.                *)
(***************************************************************************)
\* the first call was such a scan
FirstCallConsumedList ==
    /\ Len(prev) = 1
    /\ "MORE" \notin prev[1].flags
    /\ "EXTRA" \notin prev[1].flags
    /\ prev[1].ret >= 0
    /\ prev[1].wanted_type = "END"
    /\ WellFormedList(FirstList)

C5_ListConsumedNoExtra ==
    /\ ( /\ FirstCallDone
         /\ "MORE" \notin flags
         /\ "EXTRA" \notin flags
         /\ ret >= 0
         /\ wanted_type = "END"
         /\ WellFormedList(FirstList) )
       => pos = AfterFirstList
    /\ FirstCallConsumedList
       => /\ prev[1].pos = AfterFirstList
          /\ pos >= AfterFirstList
          /\ pos = AfterFirstList + NameField(FirstTerm + 1)
             => name_buf = lines[FirstTerm + 1].name /\ ch = Colon

\* the first call bound one wish and discarded two more attributes; the
\* second call has read the first name of the next list
C5_Witness ==
    /\ FirstCallConsumedList
    /\ prev[1].ret = 1
    /\ Len(FirstList) = 3
    /\ FirstList[1].name = prev[1].ap[1].name
    /\ pc = "convert"
    /\ pos = AfterFirstList + NameField(FirstTerm + 1)
    /\ name_buf = NameB

(***************************************************************************)
(* C6: with Continue set, when the wish list reaches END the scan returns  *)
(* the count at once, reading no byte and storing nothing; the first name  *)
(* the following call reads is the name of the line after the last line    *)
(* the scan bound.                                                         *)
(***************************************************************************)
\* the line after the last line bound by the wishes ws
LineAfterMatch(ws) ==
    LET g == InOrderMatch(ws, FirstList, 1)
    IN  IF Len(g) = 0 THEN 1 ELSE g[Len(g)] + 1

C6_Continue ==
    [][ /\ ( /\ pc = "wish"
             /\ wanted_type # "HASH"
             /\ ap[ai + 1].type = "END"
             /\ "MORE" \in flags )
           => /\ pc' = "done"
              /\ ret' = conversions
              /\ pos' = pos
              /\ dest' = dest
              /\ hash_table' = hash_table
        /\ ( /\ pc = "locate"
             /\ Len(prev) = 1
             /\ pos = prev[1].pos
             /\ "MORE" \in prev[1].flags
             /\ prev[1].wanted_type = "END"
             /\ prev[1].ret >= 0
             /\ StreamWhole
             /\ WellFormedList(FirstList) )
           => name_buf' =
                 lines[LineAfterMatch(SelectSeq(prev[1].ap, IsScalar))].name
      ]_vars

\* wish [A] with Continue on wire [A, B, X]: the second call has read B
C6_Witness ==
    /\ Len(prev) = 1
    /\ "MORE" \in prev[1].flags
    /\ prev[1].wanted_type = "END"
    /\ prev[1].ret = 1
    /\ Len(FirstList) = 3
    /\ FirstList[1].name = NameA
    /\ FirstList[2].name = NameB
    /\ FirstList[3].name = NameX
    /\ prev[1].pos = LineStart(2)
    /\ pc = "convert"
    /\ pos = LineStart(2) + NameField(2)
    /\ name_buf = NameB

(***************************************************************************)
(* C7: when the locate step reads the list terminator the scan returns     *)
(* the count so far, never -1, with or without ReportMissing; while a      *)
(* wish of kind NUM, LONG or STR is pending, or END, that count is the     *)
(* number of wishes bound.                                                 *)
(***************************************************************************)
C7_Missing ==
    [][ (pc = "locate" /\ VSTREAM_GETC(pos) = Newline)
        => /\ pc' = "done"
           /\ ret' = conversions
           /\ ret' >= 0
           /\ pos' = pos + 1
           /\ dest' = dest
           /\ wanted_type # "HASH"
              => ret' = Cardinality({ i \in 1..Len(dest) : dest[i].written })
      ]_vars

\* an empty wire list, a number wished, ReportMissing set: the result is 0
C7_Witness ==
    /\ FirstCallDone
    /\ stream = << Newline >>
    /\ pos = 1
    /\ wanted_type = "NUM"
    /\ "MISSING" \in flags
    /\ ret = 0

(***************************************************************************)
(* C8: a scan that meets end-of-stream while it reads a name or a value,   *)
(* or after it skipped an attribute up to end-of-stream, returns -1.       *)
(***************************************************************************)
NoDelimiterFrom(p) ==
    \A q \in (p + 1)..Len(stream) : stream[q] \notin {Colon, Newline}

NoNewlineFrom(p) == \A q \in (p + 1)..Len(stream) : stream[q] # Newline

C8_EofIsFault ==
    [][ /\ (pc = "locate" /\ NoDelimiterFrom(pos))
           => pc' = "done" /\ ret' = -1
        /\ ( /\ pc = "convert"
             /\ wanted_type \in {"NUM", "LONG", "STR", "HASH"}
             /\ ch = Colon
             /\ NoDelimiterFrom(pos) )
           => pc' = "done" /\ ret' = -1
        /\ (pc = "skip" /\ NoNewlineFrom(pos))
           => pc' = "locate" /\ pos' = Len(stream) /\ NoDelimiterFrom(pos')
      ]_vars

\* the stream ended inside the unrequested attribute X that was being
\* skipped, and the scan returned -1
C8_Witness ==
    /\ FirstCallDone
    /\ ret = -1
    /\ pos = Len(stream)
    /\ Len(lines) >= 1
    /\ Len(stream) > 0
    /\ Len(stream) > NameField(1)
    /\ stream[Len(stream)] # Newline
    /\ lines[1].name = NameX
    /\ name_buf = NameX
    /\ wanted_name = NameA
    /\ wanted_type = "STR"
    /\ "MISSING" \in flags

(***************************************************************************)
(* C9 (as stated): a field whose encoding is longer than 2 times the line  *)
(* limit makes the scan return -1; the raw field buffer is never left      *)
(* longer than that while the scan goes on.                                *)
(***************************************************************************)
C9_Bound ==
    Len(base64_buf) > 2 * var_line_limit => pc = "done" /\ ret = -1

(***************************************************************************)
(* C10: hash capture is first-write-wins.  The scan never replaces or      *)
(* removes a table entry; with ReportExtra unset, after a scan with a hash *)
(* entry has returned a count, every name of the hash phase is a key of    *)
(* the table, with the value it had before the call if it was a key then,  *)
(* and else the value of its first occurrence in the hash phase; nothing   *)
(* else was stored.                                                        *)
(***************************************************************************)
HashPhaseLines ==
    { k \in 1..(FirstTerm - 1) : hash_from >= 0 /\ LineStart(k) >= hash_from }

Keys(table) == { e[1] : e \in table }

C10_FirstWriteWins ==
    /\ table0 \subseteq hash_table
    /\ \A e1, e2 \in hash_table : e1[1] = e2[1] => e1 = e2
    /\ ( /\ FirstCallDone
         /\ ret >= 0
         /\ "EXTRA" \notin flags
         /\ HashWishList )
       => /\ \A k \in HashPhaseLines :
               LET first == Min({ j \in HashPhaseLines :
                                    lines[j].name = lines[k].name })
               IN  /\ lines[k].name \in Keys(hash_table)
                   /\ lines[k].name \notin Keys(table0)
                      => << lines[k].name, lines[first].value >> \in hash_table
          /\ Keys(hash_table) \ Keys(table0)
               = { lines[k].name : k \in HashPhaseLines } \ Keys(table0)

\* the table held B before the call; the hash phase saw B again and saw A
\* twice with different values
C10_Witness ==
    /\ FirstCallDone
    /\ ret >= 0
    /\ "EXTRA" \notin flags
    /\ HashWishList
    /\ table0 = { << NameB, << 48 >> >> }
    /\ \E j, k, l \in HashPhaseLines :
          /\ j < k
          /\ lines[j].name = NameA
          /\ lines[k].name = NameA
          /\ lines[l].name = NameB
          /\ << NameA, lines[j].value >> \in hash_table
    /\ Cardinality(hash_table) = 2

(***************************************************************************)
(* C11 (as stated): a value wished as a number is accepted only if its     *)
(* text is a non-empty string of decimal digits that fits the width of the *)
(* wish; for any other text (a sign, a leading blank, trailing characters, *)
(* an empty value, a number too wide) the scan returns -1.                 *)
(***************************************************************************)
AllDigits(v) == Len(v) > 0 /\ \A i \in 1..Len(v) : isdigit(v[i])

FitsWidth(v, type) ==
    ~digits_greater(canonical(v),
                    IF type = "NUM" THEN UINT_MAX_digits ELSE ULONG_MAX_digits)

\* the first wish is a number and the first wire line is an attribute of
\* its name, so that the scan has converted the value of that line
FirstValueIsNumber ==
    /\ FirstCallDone
    /\ StreamWhole
    /\ Len(ap) >= 1
    /\ ap[1].type \in {"NUM", "LONG"}
    /\ lines[1].shape = "attr"
    /\ lines[1].name = ap[1].name

C11_StrictDecimal ==
    ( /\ FirstValueIsNumber
      /\ ~(AllDigits(lines[1].value) /\ FitsWidth(lines[1].value, ap[1].type)) )
    => ret = -1

(***************************************************************************)
(* C12: when a wire attribute matches the pending wish, of kind NUM, LONG, *)
(* STR or HASH, and its name is ended by a newline (no value) or its value *)
(* field is ended by ':' (more than one value), the scan returns -1,       *)
(* whatever the count of wishes bound so far.                              *)
(***************************************************************************)
\* the first ':' or newline of the stream after position p, 0 if none
FirstDelimiter(p) ==
    LET d == { q \in (p + 1)..Len(stream) : stream[q] \in {Colon, Newline} }
    IN  IF d = {} THEN 0 ELSE Min(d)

\* the scan has matched a name ended by ':' and the value field that
\* follows is ended by ':' too
ValueEndsWithColon ==
    /\ ch = Colon
    /\ FirstDelimiter(pos) > 0
    /\ stream[FirstDelimiter(pos)] = Colon

C12_ShapeFault ==
    [][ ( /\ pc = "convert"
          /\ wanted_type \in {"NUM", "LONG", "STR", "HASH"}
          /\ ch = Newline \/ ValueEndsWithColon )
        => /\ pc' = "done"
           /\ ret' = -1
      ]_vars

\* A was bound, then B came with two values: the result is -1, not 1
C12_Witness ==
    /\ FirstCallDone
    /\ Len(lines) = 3
    /\ lines[2].shape = "multi"
    /\ conversions = 1
    /\ dest[1].written
    /\ wanted_name = NameB
    /\ name_buf = NameB
    /\ pos = LineStart(3) - Len(base64_encode(lines[2].value)) - 1
    /\ ret = -1

(***************************************************************************)
(* C13 (as stated): the scan takes a wire line as the list terminator      *)
(* exactly when the decoded name of the line has length 0, whether the     *)
(* name field is ended by a newline or by ':'.  With ReportExtra unset the *)
(* locate step ends the scan only at the terminator (and at a fault), so:  *)
(* the locate step on a line with a readable name ends the scan exactly    *)
(* when that name has length 0.                                            *)
(***************************************************************************)
\* the name field of line k is valid base64 and the stream holds all of it
NameDecodable(k) ==
    /\ lines[k].shape # "badname"
    /\ LineStart(k) + NameField(k) <= Len(stream)

C13_EmptyNameEnds ==
    [][ \A k \in LinesAtPos :
          ( /\ pc = "locate"
            /\ "EXTRA" \notin flags
            /\ NameDecodable(k) )
          => (pc' = "done" <=> Len(lines[k].name) = 0) ]_vars

(***************************************************************************)
(* C13 (amended): the terminator is the empty line: a name field of length *)
(* 0 that is ended by a newline.  With ReportExtra unset the locate step   *)
(* ends the scan, with the count so far, exactly on such a line; a line    *)
(* whose name has length 0 and is ended by ':' is an attribute like any    *)
(* other (converted when a wish of that name or a hash entry is pending,   *)
(* else skipped), and so is every line with a non-empty name.              *)
(***************************************************************************)
EmptyLine(k) == stream[LineStart(k) + 1] = Newline

C13_EmptyLineEnds ==
    [][ \A k \in LinesAtPos :
          ( /\ pc = "locate"
            /\ "EXTRA" \notin flags
            /\ NameDecodable(k) )
          => /\ pc' = "done" <=> EmptyLine(k)
             /\ EmptyLine(k) => ret' = conversions /\ pos' = pos + 1
             /\ ~EmptyLine(k) =>
                   /\ pos' = pos + NameField(k)
                   /\ pc' = IF \/ wanted_type = "HASH"
                               \/ /\ wanted_type # "END"
                                  /\ wanted_name = lines[k].name
                            THEN "convert" ELSE "skip" ]_vars

\* the first line has a name of length 0 and a value; the scan, looking
\* for A, has read that name and goes on to skip the line
C13_Witness ==
    /\ prev = << >>
    /\ pc = "skip"
    /\ "EXTRA" \notin flags
    /\ lines[1].shape = "attr"
    /\ lines[1].name = << >>
    /\ Len(lines[1].value) > 0
    /\ pos = 1
    /\ ch = Colon
    /\ name_buf = << >>
    /\ wanted_name = NameA
    /\ conversions = 0

(***************************************************************************)
(* C14 (as stated): a scan never returns, neither a count nor -1, once an  *)
(* entry of a kind other than NUM, LONG, STR, HASH and END has become the  *)
(* pending wish: the process is terminated instead.                        *)
(***************************************************************************)
KnownKinds == {"NUM", "LONG", "STR", "HASH", "END"}

\* an entry of an unknown kind is the pending wish
UnknownKindPending ==
    /\ ai >= 1
    /\ wanted_type = ap[ai].type
    /\ wanted_type \notin KnownKinds

C14_UnknownKindPanics == UnknownKindPending => pc # "done"

(***************************************************************************)
(* C15: a call with a flag outside the defined set panics before it reads  *)
(* a byte of the stream or writes a destination; a hash entry that END     *)
(* does not follow panics when it becomes the pending wish, before         *)
(* anything of the hash phase is read from the wire.                       *)
(***************************************************************************)
C15_ContractPanic ==
    [][ /\ ( /\ pc \in {"idle", "done"}
             /\ calls # << >>
             /\ Head(calls).flags \ ATTR_FLAG_ALL # {} )
           => /\ pc' = "panic"
              /\ pos' = pos
              /\ hash_table' = hash_table
              /\ \A i \in 1..Len(dest') : ~dest'[i].written
        /\ ( /\ pc = "wish"
             /\ wanted_type # "HASH"
             /\ ap[ai + 1].type = "HASH"
             /\ ap[ai + 2].type # "END" )
           => /\ pc' = "panic"
              /\ pos' = pos
              /\ dest' = dest
              /\ hash_table' = hash_table
      ]_vars

\* wish [A, HASH, X, END] on the wire A, X: A was bound and the scan
\* panicked with the line of X unread
C15_Witness ==
    /\ pc = "panic"
    /\ flags \subseteq ATTR_FLAG_ALL
    /\ wanted_type = "HASH"
    /\ ap[ai + 1].type = "STR"
    /\ conversions = 1
    /\ dest[1].written
    /\ Len(lines) = 3
    /\ lines[2].name = NameX
    /\ pos = LineStart(2)
    /\ hash_table = {}

(***************************************************************************)
(* C16: the ReportMissing flag changes no outcome.  The scan of the same   *)
(* stream with the same wish list, the same table and the same other       *)
(* flags, but with ReportMissing the other way, ends the same way, with    *)
(* the same result, the same destinations and table, at the same stream    *)
(* position.                                                               *)
(***************************************************************************)
\* the state in which the first call on the stream was made
AtFirstCall ==
    [Cur EXCEPT !.pc = "idle", !.pos = 0, !.ch = 0, !.wanted_name = << >>,
                !.name_buf = << >>, !.str_buf = << >>, !.base64_buf = << >>,
                !.hash_table = table0]

\* the flags with ReportMissing the other way
ToggleMissing(f) ==
    IF "MISSING" \in f THEN f \ {"MISSING"} ELSE f \cup {"MISSING"}

\* the outcome of the first call had it been made with the flags f
Twin(f) == Run(attr_vscan64(AtFirstCall, [flags |-> f, ap |-> ap]))

C16_MissingChangesNothing ==
    (prev = << >> /\ pc \in {"done", "panic"})
    => /\ Twin(flags) = Cur
       /\ LET o == Twin(ToggleMissing(flags))
          IN  /\ o.pc = pc
              /\ o.ret = ret
              /\ o.dest = dest
              /\ o.hash_table = hash_table
              /\ o.pos = pos

\* A was bound and B was missing, with ReportMissing set: the result is 1
C16_Witness ==
    /\ FirstCallDone
    /\ "MISSING" \in flags
    /\ wanted_type \in {"NUM", "LONG", "STR"}
    /\ wanted_name = NameB
    /\ ch = Newline
    /\ name_buf = << >>
    /\ conversions = 1
    /\ dest[1].written
    /\ ~dest[2].written
    /\ ret = 1
    /\ Twin(flags \ {"MISSING"}).ret = 1

(***************************************************************************)
(* C17: in the hash phase, a well-formed wire attribute whose name is a    *)
(* key of the table already leaves the table as it is and is consumed up   *)
(* to the end of its line; with ReportExtra set the scan returns there the *)
(* count so far, which is not -1 and is the number of wishes bound and     *)
(* entries stored; with ReportExtra unset the hash phase goes on with the  *)
(* next line.                                                              *)
(***************************************************************************)
\* the scan has read the name of the attribute line k and the stream
\* holds the whole line
ConvertingLine(k) ==
    /\ pc = "convert"
    /\ lines[k].shape = "attr"
    /\ pos = LineStart(k) + NameField(k)
    /\ LineStart(k + 1) <= Len(stream)

C17_HashDuplicate ==
    [][ /\ \A k \in 1..Len(lines) :
             ( /\ ConvertingLine(k)
               /\ wanted_type = "HASH"
               /\ lines[k].name \in Keys(hash_table) )
             => /\ hash_table' = hash_table
                /\ dest' = dest
                /\ pos' = LineStart(k + 1)
                /\ IF "EXTRA" \in flags
                   THEN /\ pc' = "done"
                        /\ ret' = conversions
                        /\ ret' >= 0
                        /\ ret' = Cardinality({ i \in 1..Len(dest) :
                                                  dest[i].written })
                                  + Cardinality(hash_table \ table0)
                   ELSE /\ pc' = "wish"
                        /\ wanted_type' = "HASH"
        /\ (pc = "wish" /\ wanted_type = "HASH")
           => /\ pc' = "locate"
              /\ wanted_type' = "HASH"
              /\ pos' = pos
              /\ hash_table' = hash_table
      ]_vars

\* ReportExtra set, wire [A=1, A=2, ...] scanned into an empty table: the
\* scan has stored A=1 and returned 1 at the end of the second line
C17_Witness ==
    /\ FirstCallDone
    /\ "EXTRA" \in flags
    /\ wanted_type = "HASH"
    /\ table0 = {}
    /\ Len(lines) >= 3
    /\ lines[1].name = NameA
    /\ lines[2].name = NameA
    /\ lines[1].value # lines[2].value
    /\ pos = LineStart(3)
    /\ hash_table = { << NameA, lines[1].value >> }
    /\ ret = 1

(***************************************************************************)
(* C18 (as stated): two calls of attr_scan64 on two streams, made by two   *)
(* threads that take turns at the reads of a byte, each end as they do     *)
(* when the calls are made one after the other: with the same result, the  *)
(* same destinations and the same table, at the same stream position.      *)
(***************************************************************************)
RECURSIVE T_run(_)
T_run(s) == IF s.pc \in {"done", "panic"} THEN s ELSE T_run(T_step(s))

\* thread t as it was before its call, with the static buffers b
T_before(t, b) ==
    [pc |-> "idle", stream |-> threads[t].stream, pos |-> 0,
     flags |-> threads[t].flags, ap |-> threads[t].ap, ai |-> 0,
     wanted_type |-> "NONE", wanted_name |-> << >>, conversions |-> 0,
     ch |-> 0, dest |-> [i \in 1..Len(threads[t].ap) |-> Unwritten],
     hash_table |-> threads[t].table0, ret |-> 0, hash_from |-> -1,
     table0 |-> threads[t].table0,
     name_buf |-> b.name_buf, str_buf |-> b.str_buf,
     base64_buf |-> b.base64_buf]

\* the calls made one after the other, thread 1 first
Sequential(t) ==
    LET first == T_run(T_before(1, [name_buf |-> << >>, str_buf |-> << >>,
                                    base64_buf |-> << >>]))
    IN  IF t = 1 THEN first ELSE T_run(T_before(2, first))

C18_Independent ==
    \A t \in Threads :
        threads[t].pc \in {"done", "panic"}
        => /\ threads[t].pc = Sequential(t).pc
           /\ threads[t].ret = Sequential(t).ret
           /\ threads[t].dest = Sequential(t).dest
           /\ threads[t].hash_table = Sequential(t).hash_table
           /\ threads[t].pos = Sequential(t).pos

(***************************************************************************)
(* C19 (as stated): smtpd_proxy_cmd on a stream without errors, once the   *)
(* proxy has sent a complete reply, returns 0 with SMTPD_PROX_WANT_OK      *)
(* (with SMTPD_PROX_WANT_MORE) exactly when the status code of the reply,  *)
(* the code on the line that ends the reply, is in the 200 (the 300)       *)
(* range, and returns 0 for every reply with SMTPD_PROX_WANT_ANY.          *)
(***************************************************************************)
\* the call has returned after it read a whole reply from a stream that
\* had no error before or during the call
ReplyComplete ==
    /\ proxy_cmd.pc = "done"
    /\ proxy_cmd.healthy
    /\ ~proxy_cmd.jumped
    /\ proxy_cmd.expect # SMTPD_PROX_WANT_NONE

\* the line that ended the reply
StatusLine == proxy_cmd.reply[Len(proxy_cmd.reply)]

\* the first digit of the codes of the range that is expected
ExpectedRange == IF proxy_cmd.expect = SMTPD_PROX_WANT_OK THEN 50 ELSE 51

C19_ReplyCode ==
    ReplyComplete
    => IF proxy_cmd.expect = SMTPD_PROX_WANT_ANY THEN proxy_cmd.ret = 0
       ELSE proxy_cmd.ret = 0 <=> StatusLine[1] = ExpectedRange

(***************************************************************************)
(* C20 (as stated): whenever smtpd_proxy_cmd returns a result other than   *)
(* 0, state->error_mask holds MAIL_ERROR_SOFTWARE and state->err holds     *)
(* CLEANUP_STAT_PROXY.                                                     *)
(***************************************************************************)
C20_ErrorState ==
    (proxy_cmd.pc = "done" /\ proxy_cmd.ret # 0)
    => /\ "MAIL_ERROR_SOFTWARE" \in state.error_mask
       /\ "CLEANUP_STAT_PROXY" \in state.err


(***************************************************************************)
(* Vocabulary of smtpd_proxy_open: the commands it has completed.          *)
(***************************************************************************)
IsPrefix(a, b) == Len(a) <= Len(b) /\ a = SubSeq(b, 1, Len(a))

OpenStepNames == [i \in 1..Len(proxy_open.steps) |-> proxy_open.steps[i].step]

\* the reply of step i carries a status code of the 200 range: its last
\* line starts with three digits, the first of them '2'
ReplyIs2xx(i) ==
    LET r == proxy_open.steps[i].reply
    IN  /\ Len(r) > 0
        /\ leading_digits(r[Len(r)]) = 3
        /\ r[Len(r)][1] = SMTPD_PROX_WANT_OK

\* the EHLO reply has a line that announces XCLIENT
EhloAdvertisesXclient ==
    \E i \in 1..Len(proxy_open.steps) :
        /\ proxy_open.steps[i].step = "ehlo"
        /\ \E k \in 1..Len(proxy_open.steps[i].reply) :
              xclient_line(proxy_open.steps[i].reply[k])

\* the commands were made in the fixed order, XCLIENT only when announced
OpenInOrder ==
    /\ \/ IsPrefix(OpenStepNames,
                   << "greeting", "ehlo", "xclient1", "xclient2", "mail" >>)
       \/ IsPrefix(OpenStepNames, << "greeting", "ehlo", "mail" >>)
    /\ (\E i \in 1..Len(proxy_open.steps) :
            proxy_open.steps[i].step = "xclient1") => EhloAdvertisesXclient

\* every command but the last one made had succeeded; after a failure the
\* connection is closed and nothing more was sent
OpenStopsAtFailure ==
    LET n == Len(proxy_open.steps)
    IN  /\ \A i \in 1..(n - 1) : proxy_open.steps[i].ret = 0
        /\ proxy_open.ret = -1 =>
              /\ ~state.proxy.open
              /\ \/ n = 0 /\ ~proxy_open.service.up
                 \/ n > 0 /\ proxy_open.steps[n].ret # 0
        /\ proxy_open.ret = 0 =>
              /\ state.proxy.open
              /\ n > 0
              /\ proxy_open.steps[n].step = "mail"
              /\ proxy_open.steps[n].ret = 0

(***************************************************************************)
(* C21: smtpd_proxy_open makes its steps in the order connect, greeting,   *)
(* EHLO, the two XCLIENT commands (only when the EHLO reply announces      *)
(* XCLIENT), MAIL FROM; a step is made only after every earlier one        *)
(* succeeded; the first failing step closes the connection and returns -1  *)
(* with no later command sent; and the result is 0 only if the greeting,   *)
(* EHLO and MAIL FROM each got a reply of the 200 range.                   *)
(***************************************************************************)
C21_OpenSteps ==
    proxy_open.pc = "done" =>
        /\ OpenInOrder
        /\ OpenStopsAtFailure
        /\ proxy_open.ret \in {0, -1}
        /\ proxy_open.ret = 0 =>
              \A i \in 1..Len(proxy_open.steps) :
                  proxy_open.steps[i].step \in {"greeting", "ehlo", "mail"}
                  => ReplyIs2xx(i)


(***************************************************************************)
(* Vocabulary of smtp_key_prefix.                                          *)
(***************************************************************************)
\* the call has returned a key
KeyDone == key_call.pc = "done"

\* all sender-dependent context is disabled: sender-dependent
\* authentication is off or there is no SASL password table
SenderContextDisabled ==
    \/ ~key_call.cfg.var_smtp_sender_auth
    \/ Len(key_call.cfg.var_smtp_sasl_passwd) = 0

(***************************************************************************)
(* C22: when all sender-dependent context is disabled, the key built with  *)
(* SMTP_KEY_FLAG_SENDER and any other flags is the key built with those    *)
(* other flags alone, for every iterator.                                  *)
(***************************************************************************)
C22_SenderIgnored ==
    ( /\ KeyDone
      /\ SenderContextDisabled
      /\ "SENDER" \in key_call.flags
      /\ key_call.flags \ {"SENDER"} # {} )
    => LET r == smtp_key_prefix(key_call.delim_na, key_call.iter,
                                key_call.flags \ {"SENDER"}, key_call.cfg)
       IN  /\ r.pc = "done"
           /\ r.buffer = key_call.buffer


(***************************************************************************)
(* C23: skip granularity.  With ReportExtra unset, the skip of an          *)
(* unrequested attribute, whose name field ended with ':' or with a        *)
(* newline, consumes the bytes up to and including the newline that ends   *)
(* the line of that attribute and no byte of the line after it.            *)
(***************************************************************************)
\* the scan has read the name field of line k, all of which is in the stream
NameJustRead(k) ==
    /\ lines[k].shape \in {"attr", "noval", "multi", "badvalue"}
    /\ pos = LineStart(k) + NameField(k)
    /\ LineStart(k + 1) <= Len(stream)

C23_SkipOwnLine ==
    [][ \A k \in 1..Len(lines) :
          ( /\ pc = "skip"
            /\ "EXTRA" \notin flags
            /\ NameJustRead(k) )
          => pos' = LineStart(k + 1) ]_vars


(***************************************************************************)
(* Vocabulary of C24: where a call began and where the lines begin.        *)
(***************************************************************************)
\* the stream position at which the call that is running or has returned
\* began
CallStart == IF prev = << >> THEN 0 ELSE prev[Len(prev)].pos

\* p is the beginning of a wire line: the first byte of the stream or the
\* byte after the newline of a line
AtLineStart(p) == \E k \in 1..(Len(lines) + 1) : p = LineStart(k)

(***************************************************************************)
(* C24 (as stated): a scan that began at the beginning of a wire line and  *)
(* returns a non-negative count leaves the stream at the beginning of a    *)
(* wire line, under every flag combination.                                *)
(***************************************************************************)
C24_Aligned ==
    (pc = "done" /\ ret >= 0 /\ AtLineStart(CallStart)) => AtLineStart(pos)

(***************************************************************************)
(* C24 (amended): with ReportExtra unset, a scan that began at the         *)
(* beginning of a wire line and returns a non-negative count leaves the    *)
(* stream at the beginning of a wire line.  (With ReportExtra set the      *)
(* scan returns right after the name field of the unrequested attribute.)  *)
(***************************************************************************)
C24_AlignedNoExtra ==
    ( /\ pc = "done"
      /\ ret >= 0
      /\ "EXTRA" \notin flags
      /\ AtLineStart(CallStart) )
    => AtLineStart(pos)

\* a Continue scan has bound one attribute after skipping another and has
\* returned with the rest of the list unread, at the beginning of a line
C24_Witness ==
    /\ pc = "done"
    /\ ret = 1
    /\ flags = {"MORE"}
    /\ AtLineStart(CallStart)
    /\ Len(lines) >= 4
    /\ pos = LineStart(3)
    /\ lines[1].name = NameX
    /\ lines[3].shape = "attr"


(***************************************************************************)
(* Vocabulary of C25: a scan of one wish with Continue, then a scan of one *)
(* wish without Continue, both without ReportExtra; and the single scan of *)
(* the two wishes from the beginning of the stream.                        *)
(***************************************************************************)
ChainDone ==
    /\ pc = "done"
    /\ Len(prev) = 1
    /\ "MORE" \in prev[1].flags
    /\ "EXTRA" \notin prev[1].flags
    /\ Len(prev[1].ap) = 2
    /\ IsScalar(prev[1].ap[1])
    /\ prev[1].ap[2] = END
    /\ "MORE" \notin flags
    /\ "EXTRA" \notin flags
    /\ Len(ap) = 2
    /\ IsScalar(ap[1])
    /\ ap[2] = END

SingleScan ==
    Run(attr_vscan64(AtFirstCall,
                     [flags |-> prev[1].flags \ {"MORE"},
                      ap |-> << prev[1].ap[1], ap[1], END >>]))

ChainEqualsSingle ==
    LET o == SingleScan
    IN  /\ o.pc = "done"
        /\ o.ret = prev[1].ret + ret
        /\ o.pos = pos
        /\ o.dest[1] = prev[1].dest[1]
        /\ o.dest[2] = dest[1]
        /\ prev[1].pos < AfterFirstList

(***************************************************************************)
(* C25 (as stated): with ReportExtra unset, for every wire list, a scan of *)
(* [A, END] with Continue followed by a scan of [B, END] without Continue  *)
(* binds the same values, gives the same total count and ends at the same  *)
(* position as one scan of [A, B, END] without Continue; the first scan    *)
(* does not consume the list terminator.                                   *)
(***************************************************************************)
C25_ChainedEqualsSingle ==
    (ChainDone /\ StreamWhole /\ WellFormedList(FirstList))
    => ChainEqualsSingle

(***************************************************************************)
(* C25 (amended): the same, for the wire lists in which the name A of the  *)
(* first scan occurs.  (When A is missing the first scan reads up to and   *)
(* including the list terminator, and the second scan reads what follows   *)
(* the list.)                                                              *)
(***************************************************************************)
C25_ChainedWhenPresent ==
    ( /\ ChainDone
      /\ StreamWhole
      /\ WellFormedList(FirstList)
      /\ \E k \in 1..Len(FirstList) : FirstList[k].name = prev[1].ap[1].name )
    => ChainEqualsSingle

\* wire [X, A, B]: the first scan skipped X and bound A, the second bound B
\* and read the terminator
C25_Witness ==
    /\ ChainDone
    /\ StreamWhole
    /\ Len(FirstList) = 3
    /\ FirstList[1].name = NameX
    /\ FirstList[2].name = NameA
    /\ FirstList[3].name = NameB
    /\ prev[1].ap[1].name = NameA
    /\ prev[1].ret = 1
    /\ prev[1].pos = LineStart(3)
    /\ ret = 1
    /\ dest[1].str = FirstList[3].value
    /\ pos = AfterFirstList
    /\ SingleScan.ret = 2


(***************************************************************************)
(* C26: the satisfied wishes form a prefix.  For a wish list without a     *)
(* hash entry, a scan that returns r >= 0 has r at most the number of wish *)
(* entries, has written the destinations of exactly the first r entries    *)
(* and of no later entry; and the destinations are written in wish-list    *)
(* order, each when all entries before it have been written and counted.   *)
(***************************************************************************)
C26_Prefix ==
    /\ [] ( (pc = "done" /\ ret >= 0 /\ PlainWishList)
            => /\ ret <= Len(ScalarWishes)
               /\ \A i \in 1..Len(ScalarWishes) :
                     dest[i].written <=> i <= ret )
    /\ [][ \A i \in 1..Len(dest) :
             (pc # "idle" /\ pc # "done" /\ PlainWishList
              /\ ~dest[i].written /\ dest'[i].written)
             => /\ i = conversions + 1
                /\ \A j \in 1..(i - 1) : dest[j].written ]_vars

\* the second of two wishes was not bound: the scan returned 1 with the
\* first destination written and the second one not
C26_Witness ==
    /\ pc = "done"
    /\ PlainWishList
    /\ Len(ScalarWishes) = 2
    /\ ap[1].type = "NUM"
    /\ ap[2].type = "STR"
    /\ ret = 1
    /\ dest[1].written
    /\ ~dest[2].written


(***************************************************************************)
(* Vocabulary of C27: the field values that the flags select from an       *)
(* iterator.  A value that is unavailable counts as the empty value, and   *)
(* a session without a SASL login as one with empty credentials.           *)
(***************************************************************************)
FieldText(str) == IF str.null THEN << >> ELSE STR(str.text)

Selected(iter, context_flags, cfg) ==
    LET st == iter.parent
        sel(f, v) == IF f \in context_flags THEN << v >> ELSE << >>
    IN  << sel("SERVICE", FieldText(st.service)),
           IF /\ cfg.USE_SASL_AUTH
              /\ cfg.var_smtp_sender_auth
              /\ Len(cfg.var_smtp_sasl_passwd) > 0
           THEN sel("SENDER", FieldText(st.request.sender))
           ELSE << >>,
           sel("REQ_NEXTHOP", iter.request_nexthop),
           sel("NEXTHOP", iter.dest),
           sel("HOSTNAME", iter.host),
           sel("ADDR", iter.addr),
           sel("PORT", ntohs(iter.port)),
           IF cfg.USE_SASL_AUTH
           THEN sel("SASL",
                    IF st.session.null \/ st.session.sasl_username.null
                    THEN << << >>, << >> >>
                    ELSE << FieldText(st.session.sasl_username),
                            FieldText(st.session.sasl_passwd) >>)
           ELSE << >> >>

(***************************************************************************)
(* C27: no false cache sharing.  For the flags, the delimiter (outside the *)
(* base64 alphabet) and the configuration of a call, an iterator whose     *)
(* selected field values differ from those of the call gets a different    *)
(* key.                                                                    *)
(***************************************************************************)
C27_NoFalseSharing ==
    KeyDone =>
        \A it \in KeyIterators :
            Selected(it, key_call.flags, key_call.cfg)
                # Selected(key_call.iter, key_call.flags, key_call.cfg)
            => smtp_key_prefix(key_call.delim_na, it, key_call.flags,
                               key_call.cfg).buffer # key_call.buffer

(***************************************************************************)
(* C28: reply framing in smtpd_proxy_cmd.  When a reply is awaited, lines  *)
(* are read until the first line that starts with exactly three digits     *)
(* followed by a space or the end of the line, and no line is read after   *)
(* it; a line with exactly three digits followed by '-' and every other    *)
(* line continue the reply.  A line is what one smtp_get stored; no line   *)
(* is read when no reply is awaited.                                       *)
(***************************************************************************)
\* the line has a reply code and ends the reply
EndsReply(line) ==
    /\ leading_digits(line) = 3
    /\ Len(line) = 3 \/ line[4] = Space

\* the line has a reply code and announces another line
ContinuesReply(line) ==
    /\ leading_digits(line) = 3
    /\ Len(line) > 3
    /\ line[4] = Minus

\* the lines the running or the last call has read, but for the last one
ReplyBefore == SubSeq(proxy_cmd.reply, 1, Len(proxy_cmd.reply) - 1)

C28_Framing ==
    proxy_cmd.pc \in {"get", "done"}
    => /\ \A i \in 1..Len(ReplyBefore) : ~EndsReply(ReplyBefore[i])
       /\ proxy_cmd.pc = "get"
           => \A i \in 1..Len(proxy_cmd.reply) : ~EndsReply(proxy_cmd.reply[i])
       /\ (proxy_cmd.pc = "done" /\ ~proxy_cmd.jumped /\ proxy_cmd.healthy)
           => IF proxy_cmd.expect = SMTPD_PROX_WANT_NONE
              THEN proxy_cmd.reply = << >>
              ELSE /\ proxy_cmd.reply # << >>
                   /\ EndsReply(StatusLine)
       /\ (proxy_cmd.pc = "done" /\ proxy_cmd.jumped)
           => \A i \in 1..Len(proxy_cmd.reply) : ~EndsReply(proxy_cmd.reply[i])

\* a reply of a continuation line, a line without a reply code and the
\* line that ends it, with more of the proxy's bytes left unread
C28_Witness ==
    /\ ReplyComplete
    /\ \E i \in 1..Len(ReplyBefore) : ContinuesReply(ReplyBefore[i])
    /\ \E i \in 1..Len(ReplyBefore) :
          ~ContinuesReply(ReplyBefore[i]) /\ ~EndsReply(ReplyBefore[i])
    /\ EndsReply(StatusLine)
    /\ state.proxy.in # << >>

(***************************************************************************)
(* C29: bounded reply storage.  While and after smtpd_proxy_cmd reads a    *)
(* reply, state->proxy_buffer holds at most 2 * var_line_limit characters, *)
(* however many lines the proxy sends: a line is appended only while the   *)
(* stored length is below var_line_limit, and smtp_get stores at most      *)
(* var_line_limit characters.                                              *)
(***************************************************************************)
\* the lines read, joined by newlines as the loop joins what it stores
RECURSIVE JoinedReply(_)
JoinedReply(read) ==
    IF read = << >> THEN << >>
    ELSE IF Len(read) = 1 THEN read[1]
    ELSE JoinedReply(SubSeq(read, 1, Len(read) - 1))
             \o << Newline >> \o read[Len(read)]

C29_BoundedReply ==
    (proxy_cmd.pc = "get" \/ ReplyComplete)
    => /\ Len(state.proxy_buffer) <= 2 * var_line_limit_smtpd
       /\ \A i \in 1..Len(proxy_cmd.reply) :
             Len(proxy_cmd.reply[i]) <= var_line_limit_smtpd

\* a reply whose stored part is longer than the limit and lacks a line
\* that was read after the limit was reached
C29_Witness ==
    /\ ReplyComplete
    /\ Len(proxy_cmd.reply) >= 3
    /\ Len(state.proxy_buffer) > var_line_limit_smtpd
    /\ Len(state.proxy_buffer) < Len(JoinedReply(proxy_cmd.reply))


(***************************************************************************)
(* C30: termination.  On every finite stream every attr_scan64 call        *)
(* eventually returns a count or a fault, or panics.  Every pass of the    *)
(* locate loop and every conversion, which ends a pass of the wish loop    *)
(* or of the hash phase, consumes at least one byte of the stream or ends  *)
(* the call; the skip loop consumes a byte in every pass and makes no      *)
(* pass only at the end of the stream, where the locate loop then ends     *)
(* the call; fetching the next wish reads nothing.                         *)
(***************************************************************************)
Progress ==
    /\ Running => pc' # pc
    /\ pc = "wish" => pos' = pos /\ pc' \in {"locate", "done", "panic"}
    /\ pc = "locate" => pos' > pos \/ pc' \in {"done", "panic"}
    /\ pc = "skip" => /\ pc' = "locate"
                      /\ pos' > pos \/ (pos' = pos /\ pos = Len(stream))
    /\ pc = "convert" => pos' > pos \/ pc' \in {"done", "panic"}
    /\ (pc = "locate" /\ pos = Len(stream)) => pc' \in {"done", "panic"}

C30_Terminates ==
    /\ Running ~> Ended
    /\ [][Progress]_vars

\* a call that read a stream up to its end, met the end and returned the
\* fault
C30_Witness ==
    /\ pc = "done"
    /\ pos = Len(stream)
    /\ pos > 0
    /\ ret = -1
    /\ ch = VSTREAM_EOF


=============================================================================
